---- MODULE Spec2Model ----
(***************************************************************************)
(* Pothpath: the public library listing (offset pagination, filters), the  *)
(* admin moderation tab (status transitions, bulk actions, visibility),    *)
(* the admin gate (session + e-mail allow-list) and the upload flow.       *)
(* Every awaited backend call splits its handler in two steps: the         *)
(* synchronous part that builds and issues the request (with the values    *)
(* the handler's closure captured), and the continuation that runs when    *)
(* the backend has executed the request and the response is delivered.     *)
(***************************************************************************)
EXTENDS Integers, Sequences, FiniteSets, TLC

VARIABLES
    \* ---- backend: the books table (moderation columns), keyed by id
    db, heap,
    \* ---- public library page (src/app/library/page.tsx and its older variant)
    libVariant, books, loading, loadingMore, hasMore, search, sort, genreId,
    libReqs, libSeq, envSteps, firstCount, passClean, failedFetch,
    \* ---- admin books tab
    adminVariant, adminBooks, adminLoading, status, selectedBooks,
    adminReqs, adminSeq, notes, lastDone, now, toggled,
    \* ---- admin gate
    envAllowed, session, gateLoading, accessDenied, user, route, gatePc, seen,
    \* ---- upload flow
    upVariant, title, author, upGenreId, file, isPublic, currentStep, uploading,
    formErrors, upUser, upload, objects, inserted, upNotes, upClock, submits,
    oldUploads,
    \* ---- local preferences of the library page
    favorites, bookmarks, localStorage, prefPc, pending, reloads, shownAtReload,
    touched,
    \* ---- genres tab of the admin dashboard and the two tables behind it
    schema, genreRows, bookGenres, genreList, genreReqs, genreNotes,
    \* ---- the status column under its CHECK, the edit page and the moderators
    contract, bookTable, editId, formData, saving, saveReqs, lastWrite,
    \* ---- analytics tab of the admin dashboard
    analyticsBooks, analyticsLoading

libVars  == <<libVariant, books, loading, loadingMore, hasMore, search, sort, genreId,
              libReqs, libSeq, envSteps, firstCount, passClean, failedFetch>>
admVars  == <<adminVariant, adminBooks, adminLoading, status, selectedBooks,
              adminReqs, adminSeq, notes, lastDone, now, toggled>>
gateVars == <<envAllowed, session, gateLoading, accessDenied, user, route, gatePc, seen>>
upVars   == <<upVariant, title, author, upGenreId, file, isPublic, currentStep, uploading,
              formErrors, upUser, upload, objects, inserted, upNotes, upClock, submits,
              oldUploads>>
prefVars == <<favorites, bookmarks, localStorage, prefPc, pending, reloads,
              shownAtReload, touched>>
genVars  == <<schema, genreRows, bookGenres, genreList, genreReqs, genreNotes>>
modVars  == <<contract, bookTable, editId, formData, saving, saveReqs, lastWrite>>
anaVars  == <<analyticsBooks, analyticsLoading>>
moreVars == <<modVars, anaVars>>
restVars == <<prefVars, genVars, moreVars>>
vars     == <<db, heap, libVars, admVars, gateVars, upVars, restVars>>

NULL == "null"

(***************************************************************************)
(* Strings are sequences of one-character strings, so that trim, ilike and *)
(* split are computed and not assumed.                                     *)
(***************************************************************************)
Lower(c) ==
    CASE c = "D" -> "d"
      [] c = "A" -> "a"
      [] c = "R" -> "r"
      [] c = "O" -> "o"
      [] OTHER   -> c

LowerStr(s) == [i \in 1..Len(s) |-> Lower(s[i])]

RECURSIVE TrimStart(_)
TrimStart(s) == IF s # <<>> /\ Head(s) = " " THEN TrimStart(Tail(s)) ELSE s

RECURSIVE TrimEnd(_)
TrimEnd(s) ==
    IF s # <<>> /\ s[Len(s)] = " " THEN TrimEnd(SubSeq(s, 1, Len(s) - 1)) ELSE s

Trim(s) == TrimEnd(TrimStart(s))

\* needle occurs in hay as a contiguous run
Contains(hay, needle) ==
    \E i \in 0..(Len(hay) - Len(needle)) :
        \A j \in 1..Len(needle) : hay[i + j] = needle[j]

\* column ILIKE %term% ; a NULL column never matches
ILike(col, term) ==
    /\ col # NULL
    /\ Contains(LowerStr(col), LowerStr(term))

(***************************************************************************)
(* Bounds of the model.                                                    *)
(***************************************************************************)
NumBooks       == 15    \* rows of the books table in the listing runs
MaxLibRequests == 2     \* listing requests issued in one run
MaxEnvSteps    == 1     \* moderation changes made by other sessions meanwhile

PAGE_SIZE == 12

Statuses == {"pending", "approved", "rejected", "archived"}

(***************************************************************************)
(* The columns of a book the listing never changes are fixed per id.       *)
(* Rows inserted by one statement share their timestamp, titles repeat.    *)
(***************************************************************************)
TitleOf(b) ==
    CASE b % 4 = 0 -> <<"D", "a">>
      [] b % 4 = 1 -> <<"R", "o">>
      [] b % 4 = 2 -> <<"a", "D">>
      [] OTHER     -> <<"o", "R", "a">>

AuthorOf(b) == IF b % 5 = 0 THEN <<"d", "A">> ELSE <<"x">>

DescriptionOf(b) == IF b % 7 = 0 THEN <<"r", "o", "d", "a">> ELSE NULL

GenreOf(b) == IF b % 3 = 0 THEN "g2" ELSE IF b % 3 = 1 THEN "g1" ELSE NULL

UploadAtOf(b) == (b + 1) \div 2

GenreIds     == {"", "g1"}
SearchInputs == {<<>>, <<" ">>, <<" ", "d", "A">>}
SortKeys     == {"newest", "oldest", "az", "popular"}
LegacySortKeys == {"newest", "oldest", "az"}

\* collation rank of a character, for ORDER BY title
Rank(c) ==
    CASE c = " " -> 0
      [] c = "a" -> 1
      [] c = "A" -> 2
      [] c = "d" -> 3
      [] c = "D" -> 4
      [] c = "o" -> 5
      [] c = "O" -> 6
      [] c = "r" -> 7
      [] c = "R" -> 8
      [] OTHER   -> 9

RECURSIVE LexLess(_, _)
LexLess(s, t) ==
    IF t = <<>> THEN FALSE
    ELSE IF s = <<>> THEN TRUE
    ELSE IF Rank(Head(s)) # Rank(Head(t)) THEN Rank(Head(s)) < Rank(Head(t))
    ELSE LexLess(Tail(s), Tail(t))

\* the row object a select returns: a snapshot of the row when the query ran
RowOf(b) == [id |-> b, status |-> db[b].status, is_public |-> db[b].is_public]

\* .eq("status","approved").eq("is_public",true) [.eq("genre_id",g)] [.or(ilike...)]
LibraryWhere(b, srch, gid) ==
    /\ db[b].status = "approved"
    /\ db[b].is_public = TRUE
    /\ (gid # "" => GenreOf(b) = gid)
    /\ (Trim(srch) # <<>> =>
            \/ ILike(TitleOf(b), Trim(srch))
            \/ ILike(AuthorOf(b), Trim(srch))
            \/ ILike(DescriptionOf(b), Trim(srch)))

\* the older listing page: .eq("status","approved") only, search on title/author
LegacyWhere(b, srch, gid) ==
    /\ db[b].status = "approved"
    /\ (gid # "" => GenreOf(b) = gid)
    /\ (Trim(srch) # <<>> =>
            \/ ILike(TitleOf(b), Trim(srch))
            \/ ILike(AuthorOf(b), Trim(srch)))

Where(variant, b, srch, gid) ==
    IF variant = "library" THEN LibraryWhere(b, srch, gid) ELSE LegacyWhere(b, srch, gid)

\* a switch whose "oldest" case orders like "newest"
KeyBeforeOldestDescending(a, b, key) ==
    CASE key = "newest" -> UploadAtOf(a) > UploadAtOf(b)
      [] key = "oldest" -> UploadAtOf(a) > UploadAtOf(b)
      [] key = "az"     -> LexLess(TitleOf(a), TitleOf(b))
      [] OTHER          -> FALSE

\* query.order(...): the switch has no case for "popular", so no ORDER BY
KeyBefore(a, b, key) ==
    CASE key = "newest" -> UploadAtOf(a) > UploadAtOf(b)
      [] key = "oldest" -> UploadAtOf(a) < UploadAtOf(b)
      [] key = "az"     -> LexLess(TitleOf(a), TitleOf(b))
      [] OTHER          -> FALSE

\* rows equal under the ORDER BY come in the table's physical order, which is
\* no function of the rows: updates and vacuum move them
Before(a, b, key, ord) ==
    \/ KeyBefore(a, b, key)
    \/ /\ ~KeyBefore(b, a, key)
       /\ IF ord = "asc" THEN a < b ELSE a > b

\* x put at its place in a sequence already in order
InsertOrdered(seq, x, key, ord) ==
    LET k == Cardinality({i \in 1..Len(seq) : Before(seq[i], x, key, ord)})
    IN  SubSeq(seq, 1, k) \o <<x>> \o SubSeq(seq, k + 1, Len(seq))

\* the rows of S in the order of the query
RECURSIVE Ordered(_, _, _)
Ordered(S, key, ord) ==
    IF S = {} THEN <<>>
    ELSE LET x == CHOOSE y \in S : TRUE
         IN  InsertOrdered(Ordered(S \ {x}, key, ord), x, key, ord)

Min(a, b) == IF a < b THEN a ELSE b

\* .range(from, to): the rows at offsets from..to of the ordered result
Range(seq, from, to) == SubSeq(seq, from + 1, Min(to + 1, Len(seq)))

Matching(variant, srch, gid) == {b \in DOMAIN db : Where(variant, b, srch, gid)}

\* the whole table in each order a query may ask for; the sort keys are columns
\* no handler writes, so a query's result is this order cut down to its matches
TableOrder ==
    [key \in SortKeys \cup LegacySortKeys, ord \in {"asc", "desc"} |->
        Ordered(1..NumBooks, key, ord)]

\* the ids the query of a request returns when the table lies in order ord
ResultIds(r, ord) ==
    LET matches == Matching(r.variant, r.search, r.genreId)
        all == SelectSeq(TableOrder[r.sort, ord], LAMBDA b : b \in matches)
    IN  Range(all, r.from, r.from + PAGE_SIZE - 1)

\* { data, count } of the query a request carries, run against the table now
QueryData(r) ==
    LET ids == ResultIds(r, heap)
    IN  [i \in 1..Len(ids) |-> RowOf(ids[i])]

QueryCount(r) == Cardinality(Matching(r.variant, r.search, r.genreId))

\* a load more that asks again for the last row it already holds
RangeFromOverlapping(reset, bks) == IF reset THEN 0 ELSE Len(bks) - 1

\* const from = reset ? 0 : books.length
RangeFrom(reset, bks) == IF reset THEN 0 ELSE Len(bks)

\* a merge that appends also after a reset
MergeAlwaysAppend(reset, base, newRows) == base \o newRows

\* setBooks(reset ? newRows : [...books, ...newRows])
Merge(reset, base, newRows) == IF reset THEN newRows ELSE base \o newRows

\* setHasMore((reset ? newRows.length : books.length + newRows.length) < count)
HasMoreAfter(reset, base, newRows, count) ==
    (IF reset THEN Len(newRows) ELSE Len(base) + Len(newRows)) < count

\* the request fetchBooks(reset) builds before its await, from the render's values
LibRequest(reset, srch, key, gid) ==
    [seq |-> libSeq + 1, variant |-> libVariant, reset |-> reset,
     from |-> RangeFrom(reset, books), search |-> srch, sort |-> key,
     genreId |-> gid, base |-> books]

(***************************************************************************)
(* Parts of the state a run does not exercise stay as constructed.         *)
(***************************************************************************)
LibIdle ==
    /\ libVariant = "library" /\ books = <<>> /\ loading = TRUE
    /\ loadingMore = FALSE /\ hasMore = TRUE /\ search = <<>> /\ sort = "newest"
    /\ genreId = "" /\ libReqs = {} /\ libSeq = 0 /\ envSteps = 0
    /\ firstCount = -1 /\ passClean = TRUE /\ failedFetch = "none"

\* no request has completed yet
NoneDone == [seq |-> 0, kind |-> "none", ok |-> TRUE]

AdmIdle ==
    /\ adminVariant = "BooksTab" /\ adminBooks = <<>> /\ adminLoading = TRUE
    /\ status = "pending" /\ selectedBooks = {} /\ adminReqs = {} /\ adminSeq = 0
    /\ notes = <<>> /\ lastDone = NoneDone /\ now = 0 /\ toggled = <<>>

\* getSession() resolved with session: null
NoSession == [present |-> FALSE, hasEmail |-> FALSE, email |-> <<>>]

\* process.env.NEXT_PUBLIC_ALLOWED_ADMIN_EMAILS is undefined
NoEnv == [defined |-> FALSE, text |-> <<>>]

GateIdle ==
    /\ envAllowed = NoEnv /\ session = NoSession /\ gateLoading = TRUE
    /\ accessDenied = FALSE /\ user = NoSession /\ route = "/admin" /\ gatePc = "idle"
    /\ seen = NoSession

\* useState<File | null>(null)
NoFile == [type |-> "none", size |-> 0]

\* no handleUpload has run yet
NoUpload ==
    [stage |-> "none", title |-> <<>>, author |-> <<>>, genreId |-> "", isPublic |-> TRUE,
     file |-> NoFile, userId |-> NULL, path |-> <<>>]

UpIdle ==
    /\ upVariant = "wizard" /\ title = <<>> /\ author = <<>> /\ upGenreId = ""
    /\ file = NoFile /\ isPublic = TRUE /\ currentStep = "details"
    /\ uploading = FALSE /\ formErrors = {} /\ upUser = NULL /\ upload = NoUpload
    /\ objects = {} /\ inserted = <<>> /\ upNotes = <<>> /\ upClock = 0 /\ submits = 0
    /\ oldUploads = {}

\* localStorage.getItem of a key that was never written
NoItem == <<>>

\* no setFavorites / setBookmarks is waiting for a render
NoPending == [favSet |-> FALSE, fav |-> <<>>, markSet |-> FALSE, mark |-> <<>>]

\* the preference state when another page is the one under study
PrefIdle ==
    /\ favorites = <<>> /\ bookmarks = <<>>
    /\ localStorage = [k \in {"library-favorites", "library-bookmarks"} |-> NoItem]
    /\ prefPc = "ready" /\ pending = NoPending /\ reloads = 0
    /\ shownAtReload = [known |-> TRUE, ids |-> {}] /\ touched = FALSE

\* the genres tab when another page is the one under study
GenIdle ==
    /\ schema = "set_null" /\ genreRows = {} /\ bookGenres = <<>>
    /\ genreList = {} /\ genreReqs = {} /\ genreNotes = <<>>

\* no write of a status has been sent yet
NoWrite == [by |-> "none", status |-> "none", accepted |-> TRUE]

\* the edit form before fetchData() has filled it
EmptyForm == [loaded |-> FALSE, title |-> "", status |-> "pending"]

\* the status column and the edit page when another page is under study
ModIdle ==
    /\ contract = "four_values" /\ bookTable = <<>> /\ editId = 0
    /\ formData = EmptyForm /\ saving = FALSE /\ saveReqs = {}
    /\ lastWrite = NoWrite

\* the analytics tab before its fetch answered
AnaIdle == analyticsBooks = <<>> /\ analyticsLoading = TRUE

MoreIdle == ModIdle /\ AnaIdle

RestIdle == PrefIdle /\ GenIdle /\ MoreIdle

(***************************************************************************)
(* The public library page.                                                *)
(***************************************************************************)
\* the table when the page is opened: one row may still await moderation or
\* be rejected, one may be private
LibraryTable ==
    [b \in 1..NumBooks |->
        [status      |-> IF b = NumBooks THEN "pending" ELSE "approved",
         is_public   |-> b # 1,
         approved_at |-> IF b = NumBooks THEN 0 ELSE 1]]

\* the rows whose visibility other sessions flip while the page is open
EnvRows == {1, 2}

\* the page with one fetchBooks(true) in flight and nothing listed: just mounted
\* (no genre), or just after the visitor picked a genre on a settled page
LibInit ==
    /\ db = LibraryTable
    /\ heap = "asc"
    /\ libVariant \in {"library", "legacy"}
    /\ books = <<>> /\ loading = TRUE /\ loadingMore = FALSE /\ hasMore = TRUE
    /\ search = <<>> /\ sort = "newest" /\ genreId \in GenreIds
    /\ libSeq = 1
    /\ libReqs = {[seq |-> 1, variant |-> libVariant, reset |-> TRUE, from |-> 0,
                   search |-> <<>>, sort |-> "newest", genreId |-> genreId, base |-> <<>>]}
    /\ envSteps = 0 /\ firstCount = -1 /\ passClean = TRUE /\ failedFetch = "none"
    /\ AdmIdle /\ GateIdle /\ UpIdle /\ RestIdle

\* useEffect(() => { fetchBooks(true) }, [search, sort, genreId]) after a filter
\* setter changed a value; fetchBooks(true) up to its await
FilterChanged(srch, key, gid) ==
    /\ libSeq < MaxLibRequests
    /\ <<srch, key, gid>> # <<search, sort, genreId>>
    /\ search' = srch /\ sort' = key /\ genreId' = gid
    /\ loading' = TRUE
    /\ books' = <<>>
    /\ hasMore' = TRUE
    /\ libReqs' = libReqs \cup {LibRequest(TRUE, srch, key, gid)}
    /\ libSeq' = libSeq + 1
    /\ firstCount' = -1
    /\ passClean' = (libReqs = {})
    /\ UNCHANGED <<db, heap, libVariant, loadingMore, envSteps>>
    /\ UNCHANGED <<failedFetch, admVars, gateVars, upVars, restVars>>

\* onChange of the search box
SetSearch ==
    \E srch \in SearchInputs : FilterChanged(srch, sort, genreId)

\* onChange of the sort select
SetSort ==
    \E key \in (IF libVariant = "library" THEN SortKeys ELSE LegacySortKeys) :
        FilterChanged(search, key, genreId)

\* onChange of the genre select
SetGenreId ==
    \E gid \in GenreIds : FilterChanged(search, sort, gid)

\* clearFilters, offered while a search text or a genre is active
ClearFilters ==
    /\ libVariant = "library"
    /\ (search # <<>> \/ genreId # "")
    /\ FilterChanged(<<>>, "newest", "")

\* the "Load More Books" button: rendered when not loading, the list is not
\* empty and hasMore; disabled while loadingMore. fetchBooks(false) up to its await
LoadMore ==
    /\ libSeq < MaxLibRequests
    /\ ~loading /\ books # <<>> /\ hasMore /\ ~loadingMore
    /\ loadingMore' = TRUE
    /\ libReqs' = libReqs \cup {LibRequest(FALSE, search, sort, genreId)}
    /\ libSeq' = libSeq + 1
    /\ UNCHANGED <<db, heap, libVariant, books, loading, hasMore, search, sort, genreId,
                   envSteps, firstCount, passClean>>
    /\ UNCHANGED <<failedFetch, admVars, gateVars, upVars, restVars>>

\* the request was built from filter values that are no longer the current ones
IssuedUnderOldFilter(r) == <<r.search, r.sort, r.genreId>> # <<search, sort, genreId>>

\* a fetchBooks that drops the answer to a request of an earlier filter
BooksAfterAnswerIfCurrent(r, current) ==
    IF IssuedUnderOldFilter(r) THEN current ELSE Merge(r.reset, r.base, QueryData(r))

\* after the await fetchBooks goes straight to setBooks: no token, no abort
BooksAfterAnswer(r, current) == Merge(r.reset, r.base, QueryData(r))

\* the query runs and fetchBooks resumes after its await with { data, count }
FetchBooksOk ==
    \E r \in libReqs :
        LET rows  == QueryData(r)
            count == QueryCount(r)
        IN  /\ books' = BooksAfterAnswer(r, books)
            /\ hasMore' = HasMoreAfter(r.reset, r.base, rows, count)
            /\ loading' = FALSE
            /\ loadingMore' = FALSE
            /\ libReqs' = libReqs \ {r}
            /\ firstCount' = IF r.reset THEN count ELSE firstCount
            /\ failedFetch' = "none"
            /\ UNCHANGED <<db, heap, libVariant, search, sort, genreId, libSeq,
                           envSteps, passClean>>
            /\ UNCHANGED <<admVars, gateVars, upVars, restVars>>

\* a catch block that empties the list whatever the request was
BooksAfterErrorEmptied(reset, current) == <<>>

\* catch: if (reset) setBooks([])
BooksAfterError(reset, current) == IF reset THEN <<>> ELSE current

\* the query fails: the catch and finally blocks of fetchBooks
FetchBooksError ==
    \E r \in libReqs :
        /\ books' = BooksAfterError(r.reset, books)
        /\ hasMore' = FALSE
        /\ failedFetch' = IF r.reset THEN "first" ELSE "more"
        /\ loading' = FALSE
        /\ loadingMore' = FALSE
        /\ libReqs' = libReqs \ {r}
        /\ passClean' = FALSE
        /\ UNCHANGED <<db, heap, libVariant, search, sort, genreId, libSeq, envSteps,
                       firstCount>>
        /\ UNCHANGED <<admVars, gateVars, upVars, restVars>>

\* an administrator's session approves the pending row, or archives it once
\* approved, while the page is open
EnvUpdateStatus ==
    \E s \in {"approved", "archived"} :
        /\ envSteps < MaxEnvSteps
        /\ s = IF db[NumBooks].status = "pending" THEN "approved" ELSE "archived"
        /\ s # db[NumBooks].status
        /\ db' = [db EXCEPT ![NumBooks].status = s]
        /\ envSteps' = envSteps + 1
        /\ passClean' = FALSE
        /\ UNCHANGED <<heap, libVariant, books, loading, loadingMore, hasMore, search,
                       sort, genreId, libReqs, libSeq, firstCount>>
        /\ UNCHANGED <<failedFetch, admVars, gateVars, upVars, restVars>>

\* an administrator's session flips a row's is_public while the page is open
EnvToggleVisibility ==
    \E b \in EnvRows :
        /\ envSteps < MaxEnvSteps
        /\ db' = [db EXCEPT ![b].is_public = ~db[b].is_public]
        /\ envSteps' = envSteps + 1
        /\ passClean' = FALSE
        /\ UNCHANGED <<heap, libVariant, books, loading, loadingMore, hasMore, search,
                       sort, genreId, libReqs, libSeq, firstCount>>
        /\ UNCHANGED <<failedFetch, admVars, gateVars, upVars, restVars>>

\* the table's physical row order changes under the page
EnvReorder ==
    /\ envSteps < MaxEnvSteps
    /\ heap' = IF heap = "asc" THEN "desc" ELSE "asc"
    /\ envSteps' = envSteps + 1
    /\ passClean' = FALSE
    /\ UNCHANGED <<db, libVariant, books, loading, loadingMore, hasMore, search,
                   sort, genreId, libReqs, libSeq, firstCount>>
    /\ UNCHANGED <<failedFetch, admVars, gateVars, upVars, restVars>>

LibNext ==
    \/ SetSearch
    \/ SetSort
    \/ SetGenreId
    \/ ClearFilters
    \/ LoadMore
    \/ FetchBooksOk
    \/ FetchBooksError
    \/ EnvUpdateStatus
    \/ EnvToggleVisibility
    \/ EnvReorder

SpecLib == LibInit /\ [][LibNext]_vars

\* the library page with every query answered in the end: the awaited
\* query.range(from, to) resolves or rejects; what the visitor does is not forced
SpecLibLive == SpecLib /\ WF_vars(FetchBooksOk \/ FetchBooksError)

(***************************************************************************)
(* Claims about the public library listing.                                *)
(***************************************************************************)
Filters == <<search, sort, genreId>>

NoDuplicateIds(seq) ==
    \A i, j \in 1..Len(seq) : seq[i].id = seq[j].id => i = j

\* a pass that began with a first page has run until hasMore is false
PassExhausted ==
    /\ ~loading /\ ~loadingMore /\ ~hasMore
    /\ libReqs = {}
    /\ firstCount # -1

\* C1: every book the public listing shows has status approved and is_public
\* true (as of the query that returned it): a private book is excluded whatever
\* its status, a book that is not approved is excluded whatever its visibility.
C1_ListingOnlyApprovedPublic ==
    \A i \in 1..Len(books) :
        books[i].status = "approved" /\ books[i].is_public = TRUE

C6_FilterChangeResets ==
    [][/\ Filters' # Filters =>
            /\ books' = <<>>
            /\ \E r \in libReqs' \ libReqs :
                  /\ r.reset /\ r.from = 0
                  /\ <<r.search, r.sort, r.genreId>> = Filters'
       /\ \A r \in libReqs \ libReqs' :
            r.reset => books' \in {QueryData(r), <<>>}]_vars

\* a first page under a changed filter has replaced a list that held rows
C6_Witness ==
    /\ (search # <<>> \/ sort # "newest")
    /\ libSeq >= 2
    /\ libReqs = {} /\ ~loading
    /\ books # <<>> /\ Len(books) < PAGE_SIZE

(***************************************************************************)
(* The admin books tab: components/admin/BooksTab.tsx ("BooksTab"), the    *)
(* tab inlined in app/admin/page.tsx ("AdminPage") and the older one in    *)
(* app/upload/page.tsx ("Legacy").                                         *)
(***************************************************************************)
NumAdminBooks    == 2   \* rows of the books table in the moderation runs
MaxAdminRequests == 3   \* requests the operator's actions issue in one run

AdminVariants == {"BooksTab", "AdminPage", "Legacy"}

\* the options of the status filter select
StatusFilters(variant) ==
    IF variant = "Legacy" THEN {"pending", "approved", "rejected", "all"}
    ELSE {"pending", "approved", "rejected", "archived", "all"}

\* the table when the tab is opened: pending rows and a rejected, private one
AdminTable ==
    [b \in 1..NumAdminBooks |->
        [status      |-> IF b = NumAdminBooks THEN "rejected" ELSE "pending",
         is_public   |-> b # NumAdminBooks,
         approved_at |-> 0]]

\* if (status !== "all") query = query.eq("status", status), newest first
AdminQuery(filter) ==
    LET ids == Ordered({b \in DOMAIN db : filter = "all" \/ db[b].status = filter},
                       "newest", heap)
    IN  [i \in 1..Len(ids) |-> RowOf(ids[i])]

AdminRequest(kind, id, ids, newStatus, current) ==
    [seq |-> adminSeq + 1, kind |-> kind, id |-> id, ids |-> ids,
     newStatus |-> newStatus, current |-> current, filter |-> status]

\* the fetchBooks() a handler of an earlier render calls: it reads that render's filter
FollowUpFetch(r) ==
    [seq |-> adminSeq + 1, kind |-> "fetch", id |-> 0, ids |-> {},
     newStatus |-> NULL, current |-> FALSE, filter |-> r.filter]

\* toast.error / alert on a failure
ErrorNote(op) == [level |-> "error", op |-> op]

\* toast.success, which only BooksTab.tsx shows
SuccessNotes(variant, op) ==
    IF variant = "BooksTab" THEN <<[level |-> "success", op |-> op]>> ELSE <<>>

\* the ids shown in the list
ShownIds == {adminBooks[i].id : i \in 1..Len(adminBooks)}

\* prev.filter(book => book.id !== id)
RemoveFromList(list, id) == SelectSeq(list, LAMBDA row : row.id # id)

\* updateData = { status: newStatus, updated_at }, plus approved_at when approving
UpdateData(row, newStatus, time) ==
    IF newStatus = "approved"
    THEN [row EXCEPT !.status = newStatus, !.approved_at = time]
    ELSE [row EXCEPT !.status = newStatus]

\* .update({ status: newStatus }) of the older tab
LegacyUpdateData(row, newStatus, time) == [row EXCEPT !.status = newStatus]

\* .update(updateData).in("id", ids) / .eq("id", id): one statement over the rows
ApplyUpdate(variant, ids, newStatus, time) ==
    [b \in DOMAIN db |->
        IF b \in ids
        THEN IF variant = "Legacy" THEN LegacyUpdateData(db[b], newStatus, time)
             ELSE UpdateData(db[b], newStatus, time)
        ELSE db[b]]

\* a failure handler that drops the row from the list all the same
ListAfterFailureDropping(list, id) == RemoveFromList(list, id)

\* the list after a failed mutation: the handlers return before any setBooks
ListAfterFailure(list, id) == list

\* a bulk update that reaches one of the selected rows only
BulkTargetsFirstOnly(selected) ==
    IF selected = {} THEN {} ELSE {CHOOSE b \in selected : \A c \in selected : b <= c}

\* const bookIds = Array.from(selectedBooks)
BulkTargets(selected) == selected

\* mount: the filter effect has called fetchBooks()
AdmInit ==
    /\ db = AdminTable /\ heap = "asc"
    /\ adminVariant \in AdminVariants
    /\ adminBooks = <<>> /\ adminLoading = TRUE /\ status = "pending"
    /\ selectedBooks = {}
    /\ adminSeq = 1
    /\ adminReqs = {[seq |-> 1, kind |-> "fetch", id |-> 0, ids |-> {},
                     newStatus |-> NULL, current |-> FALSE, filter |-> "pending"]}
    /\ notes = <<>> /\ lastDone = NoneDone /\ now = 1
    /\ toggled = [b \in 1..NumAdminBooks |-> [n |-> 0, orig |-> FALSE]]
    /\ LibIdle /\ GateIdle /\ UpIdle /\ RestIdle

AdmOthers == <<libVars, gateVars, upVars, restVars>>

\* onValueChange of the status select, then the filter effect: fetchBooks()
SetStatusFilter ==
    \E f \in StatusFilters(adminVariant) :
        /\ adminSeq < MaxAdminRequests
        /\ f # status
        /\ status' = f
        /\ adminLoading' = TRUE
        /\ adminReqs' = adminReqs \cup
               {[AdminRequest("fetch", 0, {}, NULL, FALSE) EXCEPT !.filter = f]}
        /\ adminSeq' = adminSeq + 1
        /\ UNCHANGED <<db, heap, adminVariant, adminBooks, selectedBooks, notes,
                       lastDone, now, toggled, AdmOthers>>

\* fetchBooks after its await, query succeeded
AdminFetchOk ==
    \E r \in adminReqs :
        /\ r.kind = "fetch"
        /\ adminBooks' = AdminQuery(r.filter)
        /\ adminLoading' = FALSE
        /\ adminReqs' = adminReqs \ {r}
        /\ lastDone' = [seq |-> r.seq, kind |-> r.kind, ok |-> TRUE]
        /\ UNCHANGED <<db, heap, adminVariant, status, selectedBooks, adminSeq,
                       notes, now, toggled, AdmOthers>>

\* fetchBooks after its await, query failed: catch and finally
AdminFetchError ==
    \E r \in adminReqs :
        /\ r.kind = "fetch"
        /\ adminBooks' = <<>>
        /\ adminLoading' = FALSE
        /\ adminReqs' = adminReqs \ {r}
        /\ notes' = IF adminVariant = "Legacy" THEN notes
                    ELSE Append(notes, ErrorNote("fetch"))
        /\ lastDone' = [seq |-> r.seq, kind |-> r.kind, ok |-> FALSE]
        /\ UNCHANGED <<db, heap, adminVariant, status, selectedBooks, adminSeq,
                       now, toggled, AdmOthers>>

\* the Approve / Reject buttons of a row shown with status pending:
\* updateStatus(id, newStatus) up to its await
UpdateStatus ==
    \E i \in 1..Len(adminBooks), s \in {"approved", "rejected"} :
        /\ adminSeq < MaxAdminRequests
        /\ ~adminLoading
        /\ adminBooks[i].status = "pending"
        /\ adminReqs' = adminReqs \cup
               {AdminRequest("status", adminBooks[i].id, {}, s, FALSE)}
        /\ adminSeq' = adminSeq + 1
        /\ UNCHANGED <<db, heap, adminVariant, adminBooks, adminLoading, status,
                       selectedBooks, notes, lastDone, now, toggled, AdmOthers>>

\* updateStatus after its await, no error: the list is reconciled
UpdateStatusOk ==
    \E r \in adminReqs :
        /\ r.kind = "status"
        /\ db' = ApplyUpdate(adminVariant, {r.id}, r.newStatus, now + 1)
        /\ now' = now + 1
        /\ notes' = notes \o SuccessNotes(adminVariant, "status")
        /\ lastDone' = [seq |-> r.seq, kind |-> r.kind, ok |-> TRUE]
        /\ IF adminVariant = "Legacy" \/ r.filter # "all"
           THEN /\ adminBooks' = RemoveFromList(adminBooks, r.id)
                /\ adminReqs' = adminReqs \ {r}
                /\ UNCHANGED <<adminLoading, adminSeq>>
           ELSE /\ adminLoading' = TRUE
                /\ adminReqs' = (adminReqs \ {r}) \cup {FollowUpFetch(r)}
                /\ adminSeq' = adminSeq + 1
                /\ UNCHANGED adminBooks
        /\ UNCHANGED <<heap, adminVariant, status, selectedBooks, toggled, AdmOthers>>

\* updateStatus after its await, error: notify and return
UpdateStatusError ==
    \E r \in adminReqs :
        /\ r.kind = "status"
        /\ notes' = Append(notes, ErrorNote("status"))
        /\ adminBooks' = ListAfterFailure(adminBooks, r.id)
        /\ adminReqs' = adminReqs \ {r}
        /\ lastDone' = [seq |-> r.seq, kind |-> r.kind, ok |-> FALSE]
        /\ UNCHANGED <<db, heap, adminVariant, adminLoading, status, selectedBooks,
                       adminSeq, now, toggled, AdmOthers>>

\* the Hide / Make Public menu item: toggleBookVisibility(book.id, book.is_public)
\* up to its await
ToggleBookVisibility ==
    \E i \in 1..Len(adminBooks) :
        /\ adminVariant = "BooksTab"
        /\ adminSeq < MaxAdminRequests
        /\ ~adminLoading
        /\ adminReqs' = adminReqs \cup
               {AdminRequest("toggle", adminBooks[i].id, {}, NULL, adminBooks[i].is_public)}
        /\ adminSeq' = adminSeq + 1
        /\ UNCHANGED <<db, heap, adminVariant, adminBooks, adminLoading, status,
                       selectedBooks, notes, lastDone, now, toggled, AdmOthers>>

\* toggleBookVisibility after its await, no error: is_public = !currentVisibility
ToggleBookVisibilityOk ==
    \E r \in adminReqs :
        /\ r.kind = "toggle"
        /\ db' = [b \in DOMAIN db |->
                    IF b = r.id THEN [db[b] EXCEPT !.is_public = ~r.current] ELSE db[b]]
        /\ toggled' = IF r.id \in DOMAIN db
                      THEN [toggled EXCEPT ![r.id] =
                              [n |-> @.n + 1,
                               orig |-> IF @.n = 0 THEN db[r.id].is_public ELSE @.orig]]
                      ELSE toggled
        /\ now' = now + 1
        /\ notes' = notes \o SuccessNotes(adminVariant, "toggle")
        /\ lastDone' = [seq |-> r.seq, kind |-> r.kind, ok |-> TRUE]
        /\ adminLoading' = TRUE
        /\ adminReqs' = (adminReqs \ {r}) \cup {FollowUpFetch(r)}
        /\ adminSeq' = adminSeq + 1
        /\ UNCHANGED <<heap, adminVariant, adminBooks, status, selectedBooks, AdmOthers>>

\* toggleBookVisibility after its await, error
ToggleBookVisibilityError ==
    \E r \in adminReqs :
        /\ r.kind = "toggle"
        /\ notes' = Append(notes, ErrorNote("toggle"))
        /\ adminBooks' = ListAfterFailure(adminBooks, r.id)
        /\ adminReqs' = adminReqs \ {r}
        /\ lastDone' = [seq |-> r.seq, kind |-> r.kind, ok |-> FALSE]
        /\ UNCHANGED <<db, heap, adminVariant, adminLoading, status, selectedBooks,
                       adminSeq, now, toggled, AdmOthers>>

\* the Delete button, confirm() answered yes: deleteBook(id) up to its await
DeleteBook ==
    \E i \in 1..Len(adminBooks) :
        /\ adminSeq < MaxAdminRequests
        /\ ~adminLoading
        /\ adminReqs' = adminReqs \cup
               {AdminRequest("delete", adminBooks[i].id, {}, NULL, FALSE)}
        /\ adminSeq' = adminSeq + 1
        /\ UNCHANGED <<db, heap, adminVariant, adminBooks, adminLoading, status,
                       selectedBooks, notes, lastDone, now, toggled, AdmOthers>>

\* deleteBook after its await, no error
DeleteBookOk ==
    \E r \in adminReqs :
        /\ r.kind = "delete"
        /\ db' = [b \in DOMAIN db \ {r.id} |-> db[b]]
        /\ now' = now + 1
        /\ notes' = notes \o SuccessNotes(adminVariant, "delete")
        /\ adminBooks' = RemoveFromList(adminBooks, r.id)
        /\ adminReqs' = adminReqs \ {r}
        /\ lastDone' = [seq |-> r.seq, kind |-> r.kind, ok |-> TRUE]
        /\ UNCHANGED <<heap, adminVariant, adminLoading, status, selectedBooks,
                       adminSeq, toggled, AdmOthers>>

\* deleteBook after its await, error
DeleteBookError ==
    \E r \in adminReqs :
        /\ r.kind = "delete"
        /\ notes' = Append(notes, ErrorNote("delete"))
        /\ adminBooks' = ListAfterFailure(adminBooks, r.id)
        /\ adminReqs' = adminReqs \ {r}
        /\ lastDone' = [seq |-> r.seq, kind |-> r.kind, ok |-> FALSE]
        /\ UNCHANGED <<db, heap, adminVariant, adminLoading, status, selectedBooks,
                       adminSeq, now, toggled, AdmOthers>>

\* the row checkbox: toggleBookSelection(id)
ToggleBookSelection ==
    \E i \in 1..Len(adminBooks) :
        /\ adminVariant = "BooksTab"
        /\ ~adminLoading
        /\ selectedBooks' = IF adminBooks[i].id \in selectedBooks
                            THEN selectedBooks \ {adminBooks[i].id}
                            ELSE selectedBooks \cup {adminBooks[i].id}
        /\ UNCHANGED <<db, heap, adminVariant, adminBooks, adminLoading, status,
                       adminReqs, adminSeq, notes, lastDone, now, toggled, AdmOthers>>

\* the header checkbox: selectAllBooks()
SelectAllBooks ==
    /\ adminVariant = "BooksTab"
    /\ ~adminLoading
    /\ Len(adminBooks) > 0
    /\ selectedBooks' = IF Cardinality(selectedBooks) = Len(adminBooks)
                        THEN {} ELSE ShownIds
    /\ UNCHANGED <<db, heap, adminVariant, adminBooks, adminLoading, status,
                   adminReqs, adminSeq, notes, lastDone, now, toggled, AdmOthers>>

\* a bulk menu item, confirm() answered yes: bulkUpdateStatus(newStatus) up to its await
BulkUpdateStatus ==
    \E s \in {"approved", "rejected", "archived"} :
        /\ adminVariant = "BooksTab"
        /\ adminSeq < MaxAdminRequests
        /\ selectedBooks # {}
        /\ adminReqs' = adminReqs \cup
               {AdminRequest("bulk", 0, BulkTargets(selectedBooks), s, FALSE)}
        /\ adminSeq' = adminSeq + 1
        /\ UNCHANGED <<db, heap, adminVariant, adminBooks, adminLoading, status,
                       selectedBooks, notes, lastDone, now, toggled, AdmOthers>>

\* bulkUpdateStatus after its await, no error
BulkUpdateStatusOk ==
    \E r \in adminReqs :
        /\ r.kind = "bulk"
        /\ db' = ApplyUpdate(adminVariant, r.ids, r.newStatus, now + 1)
        /\ now' = now + 1
        /\ notes' = notes \o SuccessNotes(adminVariant, "bulk")
        /\ selectedBooks' = {}
        /\ lastDone' = [seq |-> r.seq, kind |-> r.kind, ok |-> TRUE]
        /\ adminLoading' = TRUE
        /\ adminReqs' = (adminReqs \ {r}) \cup {FollowUpFetch(r)}
        /\ adminSeq' = adminSeq + 1
        /\ UNCHANGED <<heap, adminVariant, adminBooks, status, toggled, AdmOthers>>

\* bulkUpdateStatus after its await, error
BulkUpdateStatusError ==
    \E r \in adminReqs :
        /\ r.kind = "bulk"
        /\ notes' = Append(notes, ErrorNote("bulk"))
        /\ adminBooks' = ListAfterFailure(adminBooks, 0)
        /\ adminReqs' = adminReqs \ {r}
        /\ lastDone' = [seq |-> r.seq, kind |-> r.kind, ok |-> FALSE]
        /\ UNCHANGED <<db, heap, adminVariant, adminLoading, status, selectedBooks,
                       adminSeq, now, toggled, AdmOthers>>

AdmNext ==
    \/ SetStatusFilter
    \/ AdminFetchOk
    \/ AdminFetchError
    \/ UpdateStatus
    \/ UpdateStatusOk
    \/ UpdateStatusError
    \/ ToggleBookVisibility
    \/ ToggleBookVisibilityOk
    \/ ToggleBookVisibilityError
    \/ DeleteBook
    \/ DeleteBookOk
    \/ DeleteBookError
    \/ ToggleBookSelection
    \/ SelectAllBooks
    \/ BulkUpdateStatus
    \/ BulkUpdateStatusOk
    \/ BulkUpdateStatusError

SpecAdmin == AdmInit /\ [][AdmNext]_vars

(***************************************************************************)
(* Properties of the admin books tab.                                      *)
(***************************************************************************)
\* the requests a step completes
Completed == adminReqs \ adminReqs'

\* the requests a step issues
Issued == adminReqs' \ adminReqs

\* C2: a book's status only becomes approved or rejected from pending: no
\* step of the books tab (single approve/reject, bulk update) moves a book
\* to approved or rejected from any other status.
C2_ApproveRejectOnlyFromPending ==
    [][\A b \in DOMAIN db \cap DOMAIN db' :
          (db'[b].status # db[b].status /\ db'[b].status \in {"approved", "rejected"})
              => db[b].status = "pending"]_vars

\* C7: once a book's visibility has been toggled twice, is_public is back
\* at the value it had before the first toggle.
C7_ToggleTwiceRestores ==
    \A b \in DOMAIN db : toggled[b].n = 2 => db[b].is_public = toggled[b].orig

\* C8: a successful status mutation leaves the row with the target status,
\* and with a fresh approval timestamp exactly when the target is approved;
\* a rejection leaves approved_at as it was.
C8_ApprovalStampedIffApproved ==
    [][\A r \in Completed :
          (r.kind = "status" /\ lastDone'.seq = r.seq /\ lastDone'.ok /\ r.id \in DOMAIN db)
              => /\ db'[r.id].status = r.newStatus
                 /\ IF r.newStatus = "approved"
                    THEN db'[r.id].approved_at = now'
                    ELSE db'[r.id].approved_at = db[r.id].approved_at]_vars

\* C9: the step that delivers the failure of a status update, a visibility
\* toggle or a delete appends one error notification and leaves the list of
\* books on screen exactly as it was.
C9_FailureNotifiedListUnchanged ==
    [][\A r \in Completed :
          (r.kind \in {"status", "toggle", "delete"} /\ lastDone'.seq = r.seq /\ ~lastDone'.ok)
              => /\ notes' = Append(notes, ErrorNote(r.kind))
                 /\ adminBooks' = adminBooks]_vars

\* C9 witness: a mutation of a book that is on screen has just failed and
\* the operator has been told.
C9_Witness ==
    /\ lastDone.kind \in {"status", "toggle", "delete"}
    /\ ~lastDone.ok
    /\ Len(adminBooks) > 0
    /\ Len(notes) > 0
    /\ notes[Len(notes)] = ErrorNote(lastDone.kind)

\* C10: a bulk update is one request that carries the whole selected set and
\* one target status; its success gives every selected row that status and
\* touches no other row, its failure changes no row, and either way the
\* operator gets exactly one notification for the batch.
C10_BulkOneRequestOneOutcome ==
    [][/\ \A r \in Issued :
             r.kind = "bulk" => (Issued = {r} /\ r.ids = selectedBooks /\ db' = db)
       /\ \A r \in Completed :
             (r.kind = "bulk" /\ lastDone'.seq = r.seq)
                 => /\ Len(notes') = Len(notes) + 1
                    /\ notes'[Len(notes')] =
                           [level |-> IF lastDone'.ok THEN "success" ELSE "error",
                            op |-> "bulk"]
                    /\ IF lastDone'.ok
                       THEN \A b \in DOMAIN db :
                               IF b \in r.ids THEN db'[b].status = r.newStatus
                               ELSE db'[b] = db[b]
                       ELSE db' = db]_vars

\* C10 witness: a bulk approval of two or more books has just succeeded.
C10_Witness ==
    /\ lastDone.kind = "bulk"
    /\ lastDone.ok
    /\ Cardinality({b \in DOMAIN db :
                      db[b].status = "approved" /\ db[b].approved_at = now}) >= 2
    /\ Len(notes) > 0
    /\ notes[Len(notes)] = [level |-> "success", op |-> "bulk"]

(***************************************************************************)
(* The admin page's gate (app/admin/page.tsx).                             *)
(***************************************************************************)
\* values of NEXT_PUBLIC_ALLOWED_ADMIN_EMAILS the build may carry
EnvTexts ==
    { <<>>, <<"a">>, <<"a", ",", "b">>, <<"a", ",", " ", "b">>, <<"a", "b">>, <<",">> }

EnvValues == {NoEnv} \cup {[defined |-> TRUE, text |-> t] : t \in EnvTexts}

\* session.user.email as the auth provider may return it
Emails == { <<>>, <<"a">>, <<"b">>, <<"a", "b">> }

Sessions ==
    {NoSession, [present |-> TRUE, hasEmail |-> FALSE, email |-> <<>>]}
        \cup {[present |-> TRUE, hasEmail |-> TRUE, email |-> e] : e \in Emails}

\* String.prototype.split(','): the pieces between the commas, untrimmed
RECURSIVE SplitComma(_, _)
SplitComma(text, piece) ==
    IF text = <<>> THEN <<piece>>
    ELSE IF Head(text) = "," THEN <<piece>> \o SplitComma(Tail(text), <<>>)
    ELSE SplitComma(Tail(text), Append(piece, Head(text)))

\* process.env.NEXT_PUBLIC_ALLOWED_ADMIN_EMAILS?.split(',') || []
ALLOWED_ADMIN_EMAILS(env) == IF env.defined THEN SplitComma(env.text, <<>>) ELSE <<>>

\* a check with String.prototype.includes on the raw text instead of the array
TextIncludes(list, email) ==
    \E i \in 1..Len(list) : Contains(list[i], email)

\* Array.prototype.includes: some element is exactly the email
Includes(list, email) == \E i \in 1..Len(list) : list[i] = email

\* !userEmail: undefined, null or the empty string
Falsy(s) == ~s.hasEmail \/ s.email = <<>>

\* what the component returns
View ==
    IF route # "/admin" THEN "away"
    ELSE IF gateLoading THEN "spinner"
    ELSE IF accessDenied THEN "denied"
    ELSE "dashboard"

GateOthers == <<db, heap, libVars, admVars, upVars, restVars>>

\* first render of /admin: the effect has called getSession()
GateInit ==
    /\ envAllowed \in EnvValues
    /\ session \in Sessions
    /\ gateLoading = TRUE /\ accessDenied = FALSE /\ user = NoSession
    /\ route = "/admin" /\ gatePc = "awaiting" /\ seen = NoSession
    /\ db = <<>> /\ heap = "asc"
    /\ LibIdle /\ AdmIdle /\ UpIdle /\ RestIdle

\* getSession after its await: no session
GetSessionNone ==
    /\ gatePc = "awaiting"
    /\ ~session.present
    /\ route' = "/login"
    /\ gatePc' = "left"
    /\ seen' = session
    /\ UNCHANGED <<envAllowed, session, gateLoading, accessDenied, user, GateOthers>>

\* getSession after its await: a session whose email fails the check
GetSessionDenied ==
    /\ gatePc = "awaiting"
    /\ session.present
    /\ (Falsy(session) \/ ~Includes(ALLOWED_ADMIN_EMAILS(envAllowed), session.email))
    /\ accessDenied' = TRUE
    /\ gateLoading' = FALSE
    /\ gatePc' = "done"
    /\ seen' = session
    /\ UNCHANGED <<envAllowed, session, user, route, GateOthers>>

\* getSession after its await: a session whose email passes the check
GetSessionAllowed ==
    /\ gatePc = "awaiting"
    /\ session.present
    /\ ~(Falsy(session) \/ ~Includes(ALLOWED_ADMIN_EMAILS(envAllowed), session.email))
    /\ user' = session
    /\ gateLoading' = FALSE
    /\ gatePc' = "done"
    /\ seen' = session
    /\ UNCHANGED <<envAllowed, session, accessDenied, route, GateOthers>>

\* the Logout button of the dashboard: signOut(), then router.push("/")
HandleLogout ==
    /\ View = "dashboard"
    /\ session' = NoSession
    /\ route' = "/"
    /\ gatePc' = "left"
    /\ UNCHANGED <<envAllowed, gateLoading, accessDenied, user, seen, GateOthers>>

\* the Return to Home button of the access-denied view
ReturnHome ==
    /\ View = "denied"
    /\ route' = "/"
    /\ gatePc' = "left"
    /\ UNCHANGED <<envAllowed, session, gateLoading, accessDenied, user, seen, GateOthers>>

\* the auth provider's session changes under the page: sign-in or sign-out in
\* another tab, expiry
SessionChanges ==
    \E s \in Sessions :
        /\ s # session
        /\ session' = s
        /\ UNCHANGED <<envAllowed, gateLoading, accessDenied, user, route, gatePc, seen,
                       GateOthers>>

\* /admin is opened again after the page was left: a fresh AdminPage mounts
VisitAdmin ==
    /\ route # "/admin"
    /\ route' = "/admin"
    /\ gateLoading' = TRUE /\ accessDenied' = FALSE /\ user' = NoSession
    /\ gatePc' = "awaiting" /\ seen' = NoSession
    /\ UNCHANGED <<envAllowed, session, GateOthers>>

GateNext ==
    \/ GetSessionNone
    \/ GetSessionDenied
    \/ GetSessionAllowed
    \/ HandleLogout
    \/ ReturnHome
    \/ SessionChanges
    \/ VisitAdmin

SpecGate == GateInit /\ [][GateNext]_vars

\* the session the mount's check read is one the configured list admits
Admitted(s) ==
    /\ s.present /\ s.hasEmail /\ s.email # <<>>
    /\ \E i \in 1..Len(ALLOWED_ADMIN_EMAILS(envAllowed)) :
          ALLOWED_ADMIN_EMAILS(envAllowed)[i] = s.email

\* C5: the dashboard is on screen only if the session check of this mount read
\* a session whose email is an entry of the configured allow-list; a check that
\* read no session has sent the browser to /login; a check that read a session
\* with a missing or unlisted email has set the access-denied view; in neither
\* case is the dashboard on screen.
C5_DashboardOnlyForAllowedSession ==
    /\ View = "dashboard" => (gatePc = "done" /\ Admitted(seen))
    /\ (gatePc \in {"done", "left"} /\ ~seen.present)
           => (route = "/login" /\ View # "dashboard")
    /\ (gatePc \in {"done", "left"} /\ seen.present /\ ~Admitted(seen))
           => (accessDenied /\ View \in {"denied", "away"})

\* C5 witness: a session with a listed email has been let in to the dashboard.
C5_Witness ==
    /\ View = "dashboard"
    /\ seen.present /\ seen.email = <<"b">>
    /\ user = seen

(***************************************************************************)
(* The upload pages: the two-step wizard of app/auth/callback/page.tsx     *)
(* ("wizard") and the one-page form of unnamed/part_001 ("simple").        *)
(***************************************************************************)
MaxSubmits == 2          \* submissions started in one run
MaxOldSubmits == 1       \* the same for the older page, which lets them overlap

MAX_FILE_BYTES == 52428800   \* 50 * 1024 * 1024
SAFE_TITLE_LEN == 60

UpVariants == {"wizard", "simple", "old"}

\* texts typed into the title and author inputs
TitleInputs  == { <<>>, <<" ">>, <<" ", "T", "!", " ">> }
AuthorInputs == { <<>>, <<"A", " ">> }
UpGenres     == {"g1", "g2"}

\* files offered to the file input or dropped on it
FileInputs ==
    { [type |-> "application/pdf", size |-> MAX_FILE_BYTES],
      [type |-> "application/pdf", size |-> MAX_FILE_BYTES + 1],
      [type |-> "text/plain",      size |-> 1024] }

\* [a-zA-Z0-9]
IsAlnum(c) ==
    c \in {"a", "b", "c", "d", "e", "f", "g", "h", "i", "j", "k", "l", "m", "n", "o", "p",
           "q", "r", "s", "t", "u", "v", "w", "x", "y", "z", "A", "B", "C", "D", "E", "F",
           "G", "H", "I", "J", "K", "L", "M", "N", "O", "P", "Q", "R", "S", "T", "U", "V",
           "W", "X", "Y", "Z", "0", "1", "2", "3", "4", "5", "6", "7", "8", "9"}

\* .slice(0, n)
Slice(str, n) == SubSeq(str, 1, Min(n, Len(str)))

\* title.trim().replace(/[^a-zA-Z0-9]/g, "_").slice(0, 60)
WizardSafeTitle(t) ==
    Slice([i \in 1..Len(Trim(t)) |-> IF IsAlnum(Trim(t)[i]) THEN Trim(t)[i] ELSE "_"],
          SAFE_TITLE_LEN)

\* replace(/\s+/g, "_"): each run of blanks becomes one underscore
RECURSIVE CollapseBlanks(_)
CollapseBlanks(str) ==
    IF str = <<>> THEN <<>>
    ELSE IF Head(str) = " "
         THEN <<"_">> \o CollapseBlanks(TrimStart(Tail(str)))
         ELSE <<Head(str)>> \o CollapseBlanks(Tail(str))

\* title.trim().replace(/\s+/g, "_").slice(0, 60)
SimpleSafeTitle(t) == Slice(CollapseBlanks(Trim(t)), SAFE_TITLE_LEN)

\* `${user.id}/${Date.now()}_${safeTitle}.pdf`
FilePath(variant, userId, time, t) ==
    <<userId, time, IF variant = "wizard" THEN WizardSafeTitle(t) ELSE SimpleSafeTitle(t)>>

\* getPublicUrl(filePath).data.publicUrl
PublicUrl(path) == <<"books">> \o path

\* f.type === "application/pdf" and f.size <= 50 MiB
FileAccepted(f) == f.type = "application/pdf" /\ f.size <= MAX_FILE_BYTES

\* the older page's onFileInput: the type alone
OldFileAccepted(f) == f.type = "application/pdf"

\* onFileInput goes on to setFile(f)
SetsFile(variant, f) ==
    IF variant = "old" THEN OldFileAccepted(f) ELSE FileAccepted(f)

\* a row inserted as public whatever the switch says
BookRowAlwaysPublic(variant, u) ==
    [title |-> Trim(u.title), author |-> Trim(u.author), file_url |-> PublicUrl(u.path),
     genre_id |-> u.genreId, file_size_bytes |-> u.file.size, status |-> "pending",
     is_public |-> TRUE, upload_by |-> u.userId]

\* the object handed to .insert([...])
BookRow(variant, u) ==
    [title |-> Trim(u.title), author |-> Trim(u.author), file_url |-> PublicUrl(u.path),
     genre_id |-> u.genreId, file_size_bytes |-> u.file.size, status |-> "pending",
     is_public |-> IF variant = "wizard" THEN u.isPublic ELSE TRUE,
     upload_by |-> u.userId]

\* a handler that goes on to the insert although storage reported an error
ProceedAfterStorageError(stage) == "insert"

\* if (storageError) throw storageError: the submission is over
AfterStorageError(stage) == "failed"

\* a catch block that removes the object it had stored
ObjectsCleanedUp(objs, path) == objs \ {path}

\* the catch block of handleUpload issues no storage call: the objects stay
ObjectsAfterInsertError(objs, path) == objs

UpNote(level, text) == <<[level |-> level, text |-> text]>>

UpOthers == <<db, heap, libVars, admVars, gateVars, restVars>>

\* the page after its mount effects: the session and the genres are read
UpInit ==
    /\ upVariant \in UpVariants
    /\ title = <<>> /\ author = <<>>
    /\ upGenreId \in {"", "g1"}
    /\ file = NoFile /\ isPublic = TRUE /\ currentStep = "details"
    /\ uploading = FALSE /\ formErrors = {}
    /\ upUser \in (IF upVariant = "old" THEN {NULL} ELSE {NULL, "u1"})
    /\ upload = NoUpload
    /\ objects = {} /\ inserted = <<>> /\ upNotes = <<>> /\ upClock = 1 /\ submits = 0
    /\ oldUploads = {}
    /\ db = <<>> /\ heap = "asc"
    /\ LibIdle /\ AdmIdle /\ GateIdle /\ RestIdle

\* the form's inputs are on screen and enabled
DetailsEditable ==
    IF upVariant = "wizard" THEN currentStep = "details" ELSE ~uploading

\* the file area is on screen
FileAreaShown ==
    IF upVariant = "wizard" THEN currentStep = "upload" ELSE TRUE

\* getSession() of the mount effect resolves with a session: setUser
SessionLoaded ==
    /\ upVariant # "old"
    /\ upUser = NULL
    /\ upUser' = "u1"
    /\ UNCHANGED <<upVariant, title, author, upGenreId, file, isPublic, currentStep,
                   uploading, formErrors, upload, objects, inserted, upNotes, upClock,
                   submits, oldUploads, UpOthers>>

\* onChange of the title input
SetTitle ==
    \E t \in TitleInputs :
        /\ DetailsEditable /\ t # title
        /\ title' = t
        /\ formErrors' = IF upVariant = "wizard" THEN formErrors \ {"title"} ELSE formErrors
        /\ UNCHANGED <<upVariant, author, upGenreId, file, isPublic, currentStep,
                       uploading, upUser, upload, objects, inserted, upNotes,
                       upClock, submits, oldUploads, UpOthers>>

\* onChange of the author input
SetAuthor ==
    \E a \in AuthorInputs :
        /\ DetailsEditable /\ a # author
        /\ author' = a
        /\ formErrors' = IF upVariant = "wizard" THEN formErrors \ {"author"} ELSE formErrors
        /\ UNCHANGED <<upVariant, title, upGenreId, file, isPublic, currentStep,
                       uploading, upUser, upload, objects, inserted, upNotes,
                       upClock, submits, oldUploads, UpOthers>>

\* onValueChange of the genre select, which lists the genres that were loaded
SetUpGenreId ==
    \E g \in UpGenres :
        /\ DetailsEditable /\ upGenreId # "" /\ g # upGenreId
        /\ upGenreId' = g
        /\ formErrors' = IF upVariant = "wizard" THEN formErrors \ {"genre"} ELSE formErrors
        /\ UNCHANGED <<upVariant, title, author, file, isPublic, currentStep,
                       uploading, upUser, upload, objects, inserted, upNotes,
                       upClock, submits, oldUploads, UpOthers>>

\* onCheckedChange of the visibility switch of the wizard's details step
SetIsPublic ==
    /\ upVariant = "wizard" /\ currentStep = "details"
    /\ isPublic' = ~isPublic
    /\ UNCHANGED <<upVariant, title, author, upGenreId, file, currentStep,
                   uploading, formErrors, upUser, upload, objects, inserted, upNotes,
                   upClock, submits, oldUploads, UpOthers>>

\* a validateForm that forgets the author
ValidateFormWithoutAuthor(step, t, a, g, f) ==
    (IF step = "details" /\ Trim(t) = <<>> THEN {"title"} ELSE {}) \cup
    (IF step = "details" /\ g = "" THEN {"genre"} ELSE {}) \cup
    (IF step = "upload" /\ f = NoFile THEN {"file"} ELSE {})

\* validateForm(step): the keys of the errors object it builds and stores
ValidateForm(step, t, a, g, f) ==
    (IF step = "details" /\ Trim(t) = <<>> THEN {"title"} ELSE {}) \cup
    (IF step = "details" /\ Trim(a) = <<>> THEN {"author"} ELSE {}) \cup
    (IF step = "details" /\ g = "" THEN {"genre"} ELSE {}) \cup
    (IF step = "upload" /\ f = NoFile THEN {"file"} ELSE {})

\* the disabled attribute of the Continue button
ContinueEnabled == Trim(title) # <<>> /\ Trim(author) # <<>> /\ upGenreId # ""

\* nextStep() as the handler runs it: validateForm("details") stores its
\* errors and the step advances when there are none.  The Continue button is
\* its only caller and is disabled unless ContinueEnabled, a second check
\* of the same three fields in front of the handler's own.
NextStep ==
    /\ upVariant = "wizard" /\ currentStep = "details"
    /\ formErrors' = ValidateForm("details", title, author, upGenreId, file)
    /\ currentStep' = IF formErrors' = {} THEN "upload" ELSE "details"
    /\ UNCHANGED <<upVariant, title, author, upGenreId, file, isPublic, uploading,
                   upUser, upload, objects, inserted, upNotes, upClock, submits, oldUploads, UpOthers>>

\* the Back button, disabled while uploading: prevStep()
PrevStep ==
    /\ upVariant = "wizard" /\ currentStep = "upload" /\ ~uploading
    /\ currentStep' = "details"
    /\ UNCHANGED <<upVariant, title, author, upGenreId, file, isPublic, uploading,
                   formErrors, upUser, upload, objects, inserted, upNotes, upClock,
                   submits, oldUploads, UpOthers>>

\* a file picked in the input (disabled while uploading) or dropped on the
\* area (never disabled): onFileInput(f)
OnFileInput ==
    \E f \in FileInputs :
        /\ FileAreaShown
        /\ IF SetsFile(upVariant, f)
           THEN /\ file' = f
                /\ UNCHANGED upNotes
           ELSE /\ upNotes' = UpNote("error", "file")
                /\ UNCHANGED file
        /\ formErrors' = formErrors \ {"file"}
        /\ UNCHANGED <<upVariant, title, author, upGenreId, isPublic, currentStep,
                       uploading, upUser, upload, objects, inserted, upClock, submits,
                       oldUploads, UpOthers>>

\* the Remove button next to the chosen file, disabled while uploading
RemoveFile ==
    /\ upVariant # "old"
    /\ FileAreaShown /\ ~uploading /\ file # NoFile
    /\ file' = NoFile
    /\ UNCHANGED <<upVariant, title, author, upGenreId, isPublic, currentStep,
                   uploading, formErrors, upUser, upload, objects, inserted, upNotes,
                   upClock, submits, oldUploads, UpOthers>>

\* the submit button is enabled
CanSubmit ==
    IF upVariant = "wizard"
    THEN currentStep = "upload" /\ ~uploading /\ file # NoFile
    ELSE /\ ~uploading /\ file # NoFile
         /\ Trim(title) # <<>> /\ Trim(author) # <<>> /\ upGenreId # ""

\* the checks handleUpload makes after the one for the user
Validated ==
    IF upVariant = "wizard"
    THEN file # NoFile
    ELSE file # NoFile /\ Trim(title) # <<>> /\ Trim(author) # <<>> /\ upGenreId # ""

\* submit: handleUpload up to the await of the storage upload
HandleUpload ==
    /\ upVariant # "old"
    /\ CanSubmit
    /\ submits < MaxSubmits
    /\ submits' = submits + 1
    /\ IF upUser = NULL
       THEN /\ upNotes' = UpNote("error", "login")
            /\ UNCHANGED <<uploading, upload, upClock, formErrors>>
       ELSE IF ~Validated
       THEN /\ upNotes' = UpNote("error", "form")
            /\ formErrors' = {"file"}
            /\ UNCHANGED <<uploading, upload, upClock>>
       ELSE /\ uploading' = TRUE
            /\ formErrors' = {}
            /\ upClock' = upClock + 1
            /\ upload' = [stage |-> "storage", title |-> title, author |-> author,
                          genreId |-> upGenreId, isPublic |-> isPublic, file |-> file,
                          userId |-> upUser,
                          path |-> FilePath(upVariant, upUser, upClock, title)]
            /\ UNCHANGED upNotes
    /\ UNCHANGED <<upVariant, title, author, upGenreId, file, isPublic, currentStep,
                   upUser, objects, inserted, oldUploads, UpOthers>>

\* the storage upload succeeded (upsert: false, so the path was free);
\* handleUpload goes on to the await of the insert
StorageUploadOk ==
    /\ upload.stage = "storage"
    /\ upload.path \notin objects
    /\ objects' = objects \cup {upload.path}
    /\ upload' = [upload EXCEPT !.stage = "insert"]
    /\ UNCHANGED <<upVariant, title, author, upGenreId, file, isPublic, currentStep,
                   uploading, formErrors, upUser, inserted, upNotes, upClock, submits,
                   oldUploads, UpOthers>>

\* the storage upload failed: throw, catch, finally
StorageUploadError ==
    /\ upload.stage = "storage"
    /\ upload' = [upload EXCEPT !.stage = AfterStorageError(@)]
    /\ upNotes' = UpNote("error", "upload")
    /\ uploading' = FALSE
    /\ UNCHANGED <<upVariant, title, author, upGenreId, file, isPublic, currentStep,
                   formErrors, upUser, objects, inserted, upClock, submits, oldUploads, UpOthers>>

\* the insert succeeded: the success message, then the complete step (wizard)
\* or the emptied form (simple); finally
InsertOk ==
    /\ upload.stage = "insert"
    /\ inserted' = Append(inserted, BookRow(upVariant, upload))
    /\ upload' = [upload EXCEPT !.stage = "done"]
    /\ upNotes' = UpNote("success", "upload")
    /\ uploading' = FALSE
    /\ IF upVariant = "wizard"
       THEN /\ currentStep' = "complete"
            /\ UNCHANGED <<title, author, file, upGenreId>>
       ELSE /\ title' = <<>> /\ author' = <<>> /\ file' = NoFile
            /\ upGenreId' = "g1"
            /\ UNCHANGED currentStep
    /\ UNCHANGED <<upVariant, isPublic, formErrors, upUser, objects, upClock, submits,
                   oldUploads, UpOthers>>

\* the insert failed: throw, catch, finally; the stored object stays
InsertError ==
    /\ upload.stage = "insert"
    /\ upload' = [upload EXCEPT !.stage = "failed"]
    /\ upNotes' = UpNote("error", "upload")
    /\ uploading' = FALSE
    /\ objects' = ObjectsAfterInsertError(objects, upload.path)
    /\ UNCHANGED <<upVariant, title, author, upGenreId, file, isPublic, currentStep,
                   formErrors, upUser, inserted, upClock, submits, oldUploads, UpOthers>>

\* "Upload Another Book" of the complete step: resetForm()
ResetForm ==
    /\ upVariant = "wizard" /\ currentStep = "complete"
    /\ title' = <<>> /\ author' = <<>> /\ file' = NoFile
    /\ currentStep' = "details"
    /\ formErrors' = {}
    /\ upGenreId' = "g1"
    /\ UNCHANGED <<upVariant, isPublic, uploading, upUser, upload, objects, inserted,
                   upNotes, upClock, submits, oldUploads, UpOthers>>

\* `${Date.now()}_${safeTitle || "book"}.pdf` of the older page
OldFilePath(time, t) ==
    <<time, IF SimpleSafeTitle(t) = <<>> THEN <<"b", "o", "o", "k">> ELSE SimpleSafeTitle(t)>>

\* the object the older page hands to .insert([...]); the columns it leaves
\* out take their defaults
OldBookRow(u) ==
    [title |-> u.title, author |-> u.author, file_url |-> PublicUrl(u.path),
     genre_id |-> u.genreId, file_size_bytes |-> 0, status |-> "pending",
     is_public |-> TRUE, upload_by |-> NULL]

\* submit of the older page (the button is disabled without a genre, the
\* browser holds the form back while the required title is empty): handleUpload
\* up to the await of the storage upload; nothing disables a second submit
OldHandleUpload ==
    /\ upVariant = "old"
    /\ upGenreId # "" /\ title # <<>>
    /\ submits < MaxOldSubmits
    /\ submits' = submits + 1
    /\ IF file = NoFile
       THEN /\ upNotes' = UpNote("error", "file")
            /\ UNCHANGED <<oldUploads, upClock>>
       ELSE /\ oldUploads' = oldUploads \cup
                   {[seq |-> submits + 1, stage |-> "storage", title |-> title,
                     author |-> author, genreId |-> upGenreId, file |-> file,
                     path |-> OldFilePath(upClock, title)]}
            /\ upClock' = upClock + 1
            /\ UNCHANGED upNotes
    /\ UNCHANGED <<upVariant, title, author, upGenreId, file, isPublic, currentStep,
                   uploading, formErrors, upUser, upload, objects, inserted, UpOthers>>

\* older page: the storage upload succeeded, on to the await of the insert
OldStorageUploadOk ==
    \E r \in oldUploads :
        /\ r.stage = "storage"
        /\ r.path \notin objects
        /\ objects' = objects \cup {r.path}
        /\ oldUploads' = (oldUploads \ {r}) \cup {[r EXCEPT !.stage = "insert"]}
        /\ UNCHANGED <<upVariant, title, author, upGenreId, file, isPublic, currentStep,
                       uploading, formErrors, upUser, upload, inserted, upNotes, upClock,
                       submits, UpOthers>>

\* older page: the storage upload failed: throw, catch
OldStorageUploadError ==
    \E r \in oldUploads :
        /\ r.stage = "storage"
        /\ oldUploads' = (oldUploads \ {r}) \cup
               (IF AfterStorageError(r.stage) = "failed" THEN {}
                ELSE {[r EXCEPT !.stage = AfterStorageError(@)]})
        /\ upNotes' = UpNote("error", "upload")
        /\ UNCHANGED <<upVariant, title, author, upGenreId, file, isPublic, currentStep,
                       uploading, formErrors, upUser, upload, objects, inserted, upClock,
                       submits, UpOthers>>

\* older page: the insert succeeded: the message, then the emptied form
OldInsertOk ==
    \E r \in oldUploads :
        /\ r.stage = "insert"
        /\ inserted' = Append(inserted, OldBookRow(r))
        /\ oldUploads' = oldUploads \ {r}
        /\ upNotes' = UpNote("success", "upload")
        /\ title' = <<>> /\ author' = <<>> /\ file' = NoFile
        /\ upGenreId' = "g1"
        /\ UNCHANGED <<upVariant, isPublic, currentStep, uploading, formErrors, upUser,
                       upload, objects, upClock, submits, UpOthers>>

\* older page: the insert failed: throw, catch; the stored object stays
OldInsertError ==
    \E r \in oldUploads :
        /\ r.stage = "insert"
        /\ oldUploads' = oldUploads \ {r}
        /\ upNotes' = UpNote("error", "upload")
        /\ objects' = ObjectsAfterInsertError(objects, r.path)
        /\ UNCHANGED <<upVariant, title, author, upGenreId, file, isPublic, currentStep,
                       uploading, formErrors, upUser, upload, inserted, upClock,
                       submits, UpOthers>>

\* the Reset button of the older page
OldClearForm ==
    /\ upVariant = "old"
    /\ (title # <<>> \/ author # <<>> \/ file # NoFile)
    /\ title' = <<>> /\ author' = <<>> /\ file' = NoFile
    /\ upGenreId' = IF upGenreId = "" THEN "" ELSE "g1"
    /\ UNCHANGED <<upVariant, isPublic, currentStep, uploading, formErrors,
                   upUser, upload, objects, inserted, upNotes, upClock, submits,
                   oldUploads, UpOthers>>

UpNext ==
    \/ SessionLoaded
    \/ SetTitle
    \/ SetAuthor
    \/ SetUpGenreId
    \/ SetIsPublic
    \/ NextStep
    \/ PrevStep
    \/ OnFileInput
    \/ RemoveFile
    \/ HandleUpload
    \/ StorageUploadOk
    \/ StorageUploadError
    \/ InsertOk
    \/ InsertError
    \/ ResetForm
    \/ OldHandleUpload
    \/ OldStorageUploadOk
    \/ OldStorageUploadError
    \/ OldInsertOk
    \/ OldInsertError
    \/ OldClearForm

SpecUpload == UpInit /\ [][UpNext]_vars

\* the row a step has appended
NewRow == inserted'[Len(inserted')]

\* what a step of the wizard or of the one-page form may do to the table
RoundTripStep ==
    /\ (upload.stage \in {"storage", "insert"} /\ upload'.stage = "done")
         => /\ Trim(title) # <<>> /\ Trim(author) # <<>> /\ upGenreId # ""
            /\ FileAccepted(upload.file)
            /\ Len(inserted') = Len(inserted) + 1
            /\ SubSeq(inserted', 1, Len(inserted)) = inserted
            /\ NewRow.status = "pending"
            /\ NewRow.file_url # <<>>
            /\ NewRow.genre_id = upGenreId
            /\ NewRow.is_public = isPublic
            /\ upUser # NULL /\ NewRow.upload_by = upUser
            /\ NewRow.title = Trim(title) /\ NewRow.author = Trim(author)
    /\ (upload'.stage # "done" \/ upload.stage = "done") => inserted' = inserted

\* C4: a submission of the wizard or of the one-page form, made with a title
\* and an author that are not blank, a chosen genre g and an accepted PDF,
\* once storage and the insert have both taken it, has added exactly one book
\* row, and that row is pending, has a non-empty file_url, genre_id g, the
\* visibility the form declares and the signed-in user as uploader; a
\* submission that fails adds no row, and rows appear in no other way.
C4_UploadRoundTrip ==
    [][(upVariant \in {"wizard", "simple"}) => RoundTripStep]_vars

\* C4 witness: a private book with a padded title went through the wizard and
\* is in the table as one pending row of the signed-in user.
C4_Witness ==
    /\ upVariant = "wizard"
    /\ upload.stage = "done"
    /\ Len(inserted) = 1
    /\ inserted[1].status = "pending"
    /\ inserted[1].title = <<"T", "!">>
    /\ inserted[1].genre_id = "g2"
    /\ ~inserted[1].is_public
    /\ inserted[1].upload_by = "u1"
    /\ inserted[1].file_size_bytes = MAX_FILE_BYTES

\* C11: after a successful status mutation, if the view is filtered to one
\* status and the mutation moved the book out of it, the book is dropped from
\* the list on screen and no fetch is issued; otherwise a fetch of the list is
\* issued.
C11_ReconcileAfterStatusMutation ==
    [][\A r \in Completed :
          (r.kind = "status" /\ lastDone'.seq = r.seq /\ lastDone'.ok)
              => IF status # "all" /\ r.newStatus # status
                 THEN /\ adminBooks' = RemoveFromList(adminBooks, r.id)
                      /\ Issued = {}
                 ELSE \E f \in Issued : f.kind = "fetch"]_vars

\* the submissions of the older page a step takes out of flight or moves on
OldSettled == oldUploads \ oldUploads'

\* a step in which the storage upload of a submission fails
StorageFails ==
    \/ upload.stage = "storage" /\ upload'.stage # "insert" /\ upload' # upload
    \/ \E r \in OldSettled :
          r.stage = "storage" /\ \A q \in oldUploads' : q.seq # r.seq

\* C12: when the storage upload of a submission fails, that step creates no
\* book row and ends the submission before its insert; every row that is ever
\* created points at an object that storage had taken before.
C12_NoRowWhenStorageFails ==
    [][/\ StorageFails => inserted' = inserted
       /\ (upload.stage = "storage" /\ upload' # upload) =>
             (upload'.stage = "insert" <=> upload.path \in objects')
       /\ \A r \in OldSettled : \A q \in oldUploads' :
             (q.seq = r.seq /\ q.stage = "insert") => r.path \in objects'
       /\ inserted' # inserted =>
             \E path \in objects : NewRow.file_url = PublicUrl(path)]_vars

\* C12 witness: the only submission so far failed at the storage upload:
\* nothing is stored, no row exists, the operator has been told.
C12_Witness ==
    /\ submits = 1 /\ upClock = 2
    /\ upload.stage \in {"failed", "none"} /\ oldUploads = {}
    /\ (upVariant = "old" \/ upload.stage = "failed")
    /\ objects = {} /\ inserted = <<>>
    /\ upNotes = UpNote("error", "upload")
    /\ ~uploading

\* a step in which the insert of a submission fails after its storage upload
\* had succeeded
InsertFails ==
    \/ upload.stage = "insert" /\ upload'.stage = "failed"
    \/ \E r \in OldSettled :
          r.stage = "insert" /\ upNotes' = UpNote("error", "upload")

\* the paths of the submissions whose insert is still to be answered
AwaitingInsert ==
    (IF upload.stage = "insert" THEN {upload.path} ELSE {}) \cup
    {r.path : r \in {q \in oldUploads : q.stage = "insert"}}

\* C13: when the insert fails after the storage upload succeeded, the object
\* that was stored stays in storage and no row is created; no step of the
\* flow ever removes an object from storage.
C13_StoredObjectNeverCleanedUp ==
    [][/\ objects \subseteq objects'
       /\ InsertFails =>
             /\ AwaitingInsert \subseteq objects'
             /\ AwaitingInsert # {}
             /\ objects' = objects
             /\ inserted' = inserted]_vars

\* C13 witness: the only submission failed at its insert: one object is
\* stored and the books table has no row.
C13_Witness ==
    /\ submits = 1
    /\ upVariant = "wizard" /\ upload.stage = "failed" /\ ~uploading
    /\ Cardinality(objects) = 1 /\ upload.path \in objects
    /\ inserted = <<>>
    /\ upNotes = UpNote("error", "upload")

\* a step that sends the first network call of a submission, the storage upload
SendsUpload ==
    \/ upload.stage # "storage" /\ upload'.stage = "storage"
    \/ \E r \in oldUploads' \ oldUploads : r.stage = "storage"

\* C14: the form is validated before any network call: a step that sends the
\* storage upload has a title and an author that are not blank, a genre, and a
\* file that is a PDF of at most 50 MiB.
C14_ValidatedBeforeAnyRequest ==
    [][SendsUpload =>
          /\ Trim(title) # <<>>
          /\ Trim(author) # <<>>
          /\ upGenreId # ""
          /\ file # NoFile
          /\ file.type = "application/pdf"
          /\ file.size <= MAX_FILE_BYTES]_vars

\* the required fields of the details step that are empty
EmptyRequired ==
    (IF Trim(title) = <<>> THEN {"title"} ELSE {}) \cup
    (IF Trim(author) = <<>> THEN {"author"} ELSE {}) \cup
    (IF upGenreId = "" THEN {"genre"} ELSE {})

\* a step that is a run of nextStep: the only steps that leave the details
\* step for the file step or store an error for a details field
NextStepRuns ==
    /\ upVariant = "wizard" /\ currentStep = "details"
    /\ UNCHANGED <<title, author, upGenreId, file>>
    /\ currentStep' = "upload" \/ formErrors' # formErrors

C16_SelectedFileIsSmallPdf ==
    file # NoFile => (file.type = "application/pdf" /\ file.size <= MAX_FILE_BYTES)

\* a step in which a listing query fails
ListingFails == failedFetch' # "none" /\ libReqs' # libReqs /\ libReqs' \subseteq libReqs

\* the request whose answer a step delivers
Answered == CHOOSE r \in libReqs : r \notin libReqs'

\* C17 as stated: whenever a listing query fails, for a first page or for a
\* load-more page, the page ends with an empty list and hasMore false, and no
\* request is sent again.
C17_FailureEmptiesList ==
    [][ListingFails =>
          (books' = <<>> /\ ~hasMore' /\ libReqs' = libReqs \ {Answered})]_vars

\* C17 amended: a failed listing query leaves hasMore false and sends no other
\* request; the list is emptied when the failed query was a first page and is
\* left as it stands when it was a load-more page.
C17_FailureStopsPaging ==
    [][ListingFails =>
          /\ ~hasMore'
          /\ libReqs' = libReqs \ {Answered} /\ libSeq' = libSeq
          /\ ~loading' /\ ~loadingMore'
          /\ books' = IF Answered.reset THEN <<>> ELSE books]_vars

\* C17 witness: a load-more query has failed on a page that lists a first
\* page: the rows stay, hasMore is off and nothing is in flight.
C17_Witness ==
    /\ failedFetch = "more" /\ libReqs = {} /\ libSeq = 2
    /\ Len(books) = PAGE_SIZE /\ ~hasMore /\ ~loading /\ ~loadingMore
    /\ firstCount > PAGE_SIZE

\* the "Load More Books" button is on screen and enabled
LoadMoreUsable == ~loading /\ books # <<>> /\ hasMore /\ ~loadingMore

\* C18, for the listing: after a failed listing query the loading flags are
\* cleared in the end and the control that sent the query is usable again: the
\* filter controls after a failed first page, the Load More button after a
\* failed load-more page.
C18_FailureLeavesRetryable ==
    /\ (failedFetch = "first") ~> (~loading /\ ~loadingMore)
    /\ (failedFetch = "more") ~> (~loading /\ ~loadingMore /\ LoadMoreUsable)

(***************************************************************************)
(* Local preferences of the library page: favorites and bookmarks kept in  *)
(* localStorage (src/app/library/page.tsx).                                *)
(***************************************************************************)
MaxReloads == 2

PrefIds == {"b1", "b2"}

PrefKeys == {"library-favorites", "library-bookmarks"}

\* a Set in insertion order, without duplicates
RECURSIVE SetOf(_)
SetOf(seq) ==
    IF seq = <<>> THEN <<>>
    ELSE LET front == SetOf(SubSeq(seq, 1, Len(seq) - 1))
             last  == seq[Len(seq)]
         IN  IF \E i \in 1..Len(front) : front[i] = last
             THEN front ELSE Append(front, last)

\* the ids a Set holds
Members(set) == {set[i] : i \in 1..Len(set)}

\* JSON.stringify(Array.from(set)): the text as tokens [ id , id ]
RECURSIVE Joined(_)
Joined(seq) ==
    IF seq = <<>> THEN <<>>
    ELSE IF Len(seq) = 1 THEN <<seq[1]>>
    ELSE <<seq[1], ",">> \o Joined(Tail(seq))

Stringify(set) == <<"[">> \o Joined(set) \o <<"]">>

\* JSON.parse(text) of an array of ids
JSONParse(text) == SelectSeq(text, LAMBDA t : t \notin {"[", ",", "]"})

\* a mount effect that never reads what was saved
LoadedNever(item) == [set |-> FALSE, value |-> <<>>]

\* if (saved) setX(new Set(JSON.parse(saved)))
Loaded(item) ==
    IF item # NoItem
    THEN [set |-> TRUE, value |-> SetOf(JSONParse(item))]
    ELSE [set |-> FALSE, value |-> <<>>]

\* newSet.has(id) ? newSet.delete(id) : newSet.add(id)
Toggled(set, id) ==
    IF id \in Members(set)
    THEN SelectSeq(set, LAMBDA x : x # id)
    ELSE Append(set, id)

PrefOthers == <<db, heap, libVars, admVars, gateVars, upVars, genVars, moreVars>>

\* the page rendered for the first time in a browser that may hold what an
\* earlier visit saved; its effects have not run yet
PrefInit ==
    /\ db = LibraryTable /\ heap = "asc"
    /\ LibIdle /\ AdmIdle /\ GateIdle /\ UpIdle /\ GenIdle /\ MoreIdle
    /\ favorites = <<>> /\ bookmarks = <<>>
    /\ localStorage \in [PrefKeys -> {NoItem, Stringify(<<>>), Stringify(<<"b2">>)}]
    /\ prefPc = "mounted" /\ pending = NoPending /\ reloads = 0
    /\ shownAtReload = [known |-> TRUE,
                        ids |-> Members(JSONParse(localStorage["library-favorites"]))]
    /\ touched = FALSE

\* the effects of the first render, in the order they are declared: the
\* saved preferences are read and handed to setFavorites / setBookmarks, then
\* the two saving effects write the state of this render, the empty Sets
MountEffects ==
    /\ prefPc = "mounted"
    /\ LET f == Loaded(localStorage["library-favorites"])
           b == Loaded(localStorage["library-bookmarks"])
       IN  /\ pending' = [favSet |-> f.set, fav |-> f.value,
                          markSet |-> b.set, mark |-> b.value]
           /\ prefPc' = IF f.set \/ b.set THEN "rerender" ELSE "ready"
    /\ localStorage' = [k \in PrefKeys |->
                           IF k = "library-favorites" THEN Stringify(favorites)
                           ELSE Stringify(bookmarks)]
    /\ UNCHANGED <<favorites, bookmarks, reloads, shownAtReload, touched, PrefOthers>>

\* the render the setters asked for, and the saving effects of the Sets
\* that changed
Rerender ==
    /\ prefPc = "rerender"
    /\ favorites' = IF pending.favSet THEN pending.fav ELSE favorites
    /\ bookmarks' = IF pending.markSet THEN pending.mark ELSE bookmarks
    /\ localStorage' = [k \in PrefKeys |->
                           IF k = "library-favorites" /\ pending.favSet
                           THEN Stringify(favorites')
                           ELSE IF k = "library-bookmarks" /\ pending.markSet
                           THEN Stringify(bookmarks')
                           ELSE localStorage[k]]
    /\ pending' = NoPending
    /\ prefPc' = "ready"
    /\ UNCHANGED <<reloads, shownAtReload, touched, PrefOthers>>

\* toggleFavorite(bookId), its render and the effect that saves favorites
ToggleFavorite ==
    \E id \in PrefIds :
        /\ prefPc = "ready"
        /\ favorites' = Toggled(favorites, id)
        /\ localStorage' = [localStorage EXCEPT
                               !["library-favorites"] = Stringify(favorites')]
        /\ touched' = TRUE
        /\ UNCHANGED <<bookmarks, prefPc, pending, reloads, shownAtReload, PrefOthers>>

\* toggleBookmark(bookId), its render and the effect that saves bookmarks
ToggleBookmark ==
    \E id \in PrefIds :
        /\ prefPc = "ready"
        /\ bookmarks' = Toggled(bookmarks, id)
        /\ localStorage' = [localStorage EXCEPT
                               !["library-bookmarks"] = Stringify(bookmarks')]
        /\ UNCHANGED <<favorites, prefPc, pending, reloads, shownAtReload, touched,
                       PrefOthers>>

\* the visitor reloads: the state of the page is gone, localStorage stays.
\* shownAtReload records the favorites of the page that was left when it had
\* finished mounting; a page left before its effects ran changes nothing, and
\* one left between its effects and the render they asked for showed nothing
\* of what it had read
Reload ==
    /\ reloads < MaxReloads
    /\ reloads' = reloads + 1
    /\ shownAtReload' =
          IF prefPc = "ready" THEN [known |-> TRUE, ids |-> Members(favorites)]
          ELSE IF prefPc = "mounted" THEN shownAtReload
          ELSE [known |-> FALSE, ids |-> {}]
    /\ favorites' = <<>> /\ bookmarks' = <<>>
    /\ pending' = NoPending
    /\ prefPc' = "mounted"
    /\ touched' = FALSE
    /\ UNCHANGED <<localStorage, PrefOthers>>

PrefNext ==
    \/ MountEffects
    \/ Rerender
    \/ ToggleFavorite
    \/ ToggleBookmark
    \/ Reload

SpecPrefs == PrefInit /\ [][PrefNext]_vars

\* C19: a mount that completes after the reload of a page that had finished
\* mounting yields the favorites that page showed: a book added before the
\* reload is a favorite after it, one removed before the reload is not, and
\* what is saved is what is shown.
C19_FavoritesSurviveReload ==
    [][(prefPc # "ready" /\ prefPc' = "ready" /\ shownAtReload.known) =>
          /\ Members(favorites') = shownAtReload.ids
          /\ JSONParse(localStorage'["library-favorites"]) = favorites']_vars

\* C19 witness: b1 was added in an earlier life of the page, the page was
\* reloaded, and the finished mount shows b1 without any toggle since.
C19_Witness ==
    /\ reloads >= 1 /\ prefPc = "ready" /\ ~touched
    /\ favorites = <<"b1">>
    /\ shownAtReload = [known |-> TRUE, ids |-> {"b1"}]

\* the loss the mount order allows: a page left between its effects and the
\* render they asked for has already saved its empty Sets
FavoritesWipedWhileMounting ==
    prefPc = "rerender" /\ pending.favSet /\ pending.fav # <<>>
        /\ JSONParse(localStorage["library-favorites"]) = <<>>

(***************************************************************************)
(* Genres tab (src/components/admin/GenresTab.tsx) and the foreign key     *)
(* books.genre_id -> genres.id of the two schema variants.                 *)
(***************************************************************************)
NumGenres   == 2
NumGenBooks == 2

\* genres.name is NOT NULL UNIQUE
GenreNames == [g \in 1..NumGenres |-> <<"G">> \o [i \in 1..g |-> "x"]]

\* books_genre_fkey as database/supabase.sql and the later README schema
\* declare it (ON DELETE SET NULL), and as the first README schema does
\* (no ON DELETE clause: NO ACTION)
Schemas == {"set_null", "no_action"}

\* the value of books.genre_id of a book without genre
NoGenre == 0

\* the books that reference genre g
Referencing(table, g) == {b \in DOMAIN table : table[b] = g}

\* a foreign key declared ON DELETE CASCADE
BooksAfterGenreDeleteCascade(table, g) ==
    [b \in (DOMAIN table) \ Referencing(table, g) |-> table[b]]

\* ON DELETE SET NULL: the books stay, their genre_id becomes null
BooksAfterGenreDelete(table, g) ==
    [b \in DOMAIN table |-> IF table[b] = g THEN NoGenre ELSE table[b]]

\* NO ACTION refuses the delete while a book references the genre
DeleteRefused(variant, table, g) ==
    variant = "no_action" /\ Referencing(table, g) # {}

\* select("*, genres(name)"): the embedded genre of a book row, if any
JoinedGenre(table, rows, b) ==
    IF table[b] \in rows THEN GenreNames[table[b]] ELSE <<>>

\* {book.genres?.name || "Uncategorized"}
DisplayedGenre(joined) == IF joined = <<>> THEN <<"Uncategorized">> ELSE joined

GenOthers == <<db, heap, libVars, admVars, gateVars, upVars, prefVars, moreVars>>

\* the tab after its first fetchGenres, over tables in which every book has
\* a genre that exists or none
GenInit ==
    /\ db = LibraryTable /\ heap = "asc"
    /\ LibIdle /\ AdmIdle /\ GateIdle /\ UpIdle /\ PrefIdle /\ MoreIdle
    /\ schema \in Schemas
    /\ genreRows = 1..NumGenres
    /\ bookGenres \in [1..NumGenBooks -> (1..NumGenres) \cup {NoGenre}]
    /\ genreList = genreRows
    /\ genreReqs = {} /\ genreNotes = <<>>

\* deleteGenre(id, name) with the confirm accepted, up to its await
DeleteGenre ==
    \E g \in genreList :
        /\ g \notin genreReqs
        /\ genreReqs' = genreReqs \cup {g}
        /\ UNCHANGED <<schema, genreRows, bookGenres, genreList, genreNotes, GenOthers>>

\* the delete is carried out: success toast and fetchGenres(), which may fail
DeleteGenreOk ==
    \E g \in genreReqs, fetched \in BOOLEAN :
        /\ ~DeleteRefused(schema, bookGenres, g)
        /\ genreRows' = genreRows \ {g}
        /\ bookGenres' = IF g \in genreRows
                         THEN BooksAfterGenreDelete(bookGenres, g) ELSE bookGenres
        /\ genreReqs' = genreReqs \ {g}
        /\ genreNotes' = IF fetched THEN <<"deleted">> ELSE <<"deleted", "fetch failed">>
        /\ genreList' = IF fetched THEN genreRows' ELSE genreList
        /\ UNCHANGED <<schema, GenOthers>>

\* the delete is refused by the foreign key or fails on the way: error toast
DeleteGenreError ==
    \E g \in genreReqs :
        /\ genreReqs' = genreReqs \ {g}
        /\ genreNotes' = <<"delete failed">>
        /\ UNCHANGED <<schema, genreRows, bookGenres, genreList, GenOthers>>

GenNext ==
    \/ DeleteGenre
    \/ DeleteGenreOk
    \/ DeleteGenreError

SpecGenres == GenInit /\ [][GenNext]_vars

\* the genres a step removes from the genres table
GenresDeleted == genreRows \ genreRows'

NumModBooks == 2

\* CHECK (status IN (...)) of database/supabase.sql, three values, and of
\* the README schemas, four
Contracts == {"three_values", "four_values"}

CheckAccepts(variant, s) ==
    IF variant = "three_values" THEN s \in {"pending", "approved", "rejected"}
    ELSE s \in {"pending", "approved", "rejected", "archived"}

\* the statuses the Approve / Reject buttons and the bulk menu send
SingleStatuses == {"approved", "rejected"}
BulkStatuses   == {"approved", "rejected", "archived"}

\* .update({ title: formData.title, ..., status: formData.status, ... })
SavedRow(row, form) == [row EXCEPT !.title = form.title, !.status = form.status]

ModOthers == <<db, heap, libVars, admVars, gateVars, upVars, prefVars, genVars, anaVars>>

\* some books are uploaded already, in states the contract admits; the edit
\* page of one of them is opened and has not loaded yet
ModInit ==
    /\ db = LibraryTable /\ heap = "asc"
    /\ LibIdle /\ AdmIdle /\ GateIdle /\ UpIdle /\ PrefIdle /\ GenIdle /\ AnaIdle
    /\ contract \in Contracts
    /\ bookTable \in [1..NumModBooks -> [title : {"old"}, status : {"none", "pending", "approved"}]]
    /\ editId \in 1..NumModBooks
    /\ formData = EmptyForm /\ saving = FALSE /\ saveReqs = {}
    /\ lastWrite = NoWrite

\* the insert of the upload flow: status "pending"
ModInsert ==
    \E b \in DOMAIN bookTable :
        /\ bookTable[b].status = "none"
        /\ lastWrite' = [by |-> "upload", status |-> "pending",
                         accepted |-> CheckAccepts(contract, "pending")]
        /\ bookTable' = IF lastWrite'.accepted
                        THEN [bookTable EXCEPT ![b].status = "pending"] ELSE bookTable
        /\ UNCHANGED <<contract, editId, formData, saving, saveReqs, ModOthers>>

\* fetchData() of the edit page: the row is read into formData
FetchData ==
    /\ ~formData.loaded
    /\ bookTable[editId].status # "none"
    /\ formData' = [loaded |-> TRUE, title |-> bookTable[editId].title,
                    status |-> bookTable[editId].status]
    /\ UNCHANGED <<contract, bookTable, editId, saving, saveReqs, lastWrite, ModOthers>>

\* handleInputChange("title", value)
HandleInputChange ==
    \E t \in {"old", "new"} :
        /\ formData.loaded /\ t # formData.title
        /\ formData' = [formData EXCEPT !.title = t]
        /\ UNCHANGED <<contract, bookTable, editId, saving, saveReqs, lastWrite,
                       ModOthers>>

\* handleSave up to its await: the update carries formData as it is now
HandleSave ==
    /\ formData.loaded /\ ~saving /\ formData.title # ""
    /\ saving' = TRUE
    /\ saveReqs' = saveReqs \cup {formData}
    /\ UNCHANGED <<contract, bookTable, editId, formData, lastWrite, ModOthers>>

\* the update of handleSave is carried out under the CHECK
SaveOk ==
    \E r \in saveReqs :
        /\ CheckAccepts(contract, r.status)
        /\ bookTable' = [bookTable EXCEPT ![editId] = SavedRow(@, r)]
        /\ lastWrite' = [by |-> "edit", status |-> r.status, accepted |-> TRUE]
        /\ saveReqs' = saveReqs \ {r}
        /\ saving' = FALSE
        /\ UNCHANGED <<contract, editId, formData, ModOthers>>

\* the update of handleSave fails: catch, finally
SaveError ==
    \E r \in saveReqs :
        /\ saveReqs' = saveReqs \ {r}
        /\ saving' = FALSE
        /\ UNCHANGED <<contract, bookTable, editId, formData, lastWrite,
                       ModOthers>>

\* updateStatus(id, newStatus) of a moderator, carried out under the CHECK
ModUpdateStatus ==
    \E b \in DOMAIN bookTable, s \in SingleStatuses :
        /\ bookTable[b].status \notin {"none", s}
        /\ lastWrite' = [by |-> "updateStatus", status |-> s,
                         accepted |-> CheckAccepts(contract, s)]
        /\ bookTable' = IF lastWrite'.accepted
                        THEN [bookTable EXCEPT ![b].status = s] ELSE bookTable
        /\ UNCHANGED <<contract, editId, formData, saving, saveReqs, ModOthers>>

\* bulkUpdateStatus(newStatus) of a moderator over the selected books: one
\* statement, refused as a whole when the CHECK refuses the value
ModBulkUpdateStatus ==
    \E ids \in (SUBSET {b \in DOMAIN bookTable : bookTable[b].status # "none"}) \ {{}},
       s \in BulkStatuses :
        /\ \E b \in ids : bookTable[b].status # s
        /\ lastWrite' = [by |-> "bulkUpdateStatus", status |-> s,
                         accepted |-> CheckAccepts(contract, s)]
        /\ bookTable' = IF lastWrite'.accepted
                        THEN [b \in DOMAIN bookTable |->
                                 IF b \in ids THEN [bookTable[b] EXCEPT !.status = s]
                                 ELSE bookTable[b]]
                        ELSE bookTable
        /\ UNCHANGED <<contract, editId, formData, saving, saveReqs, ModOthers>>

ModNext ==
    \/ ModInsert
    \/ FetchData
    \/ HandleInputChange
    \/ HandleSave
    \/ SaveOk
    \/ SaveError
    \/ ModUpdateStatus
    \/ ModBulkUpdateStatus

SpecMod == ModInit /\ [][ModNext]_vars

\* C21: every book that exists has one of the four statuses, and the data
\* contract accepts every status a page writes.
C21_StatusEnumeratedAndAccepted ==
    /\ \A b \in DOMAIN bookTable : bookTable[b].status \in Statuses \cup {"none"}
    /\ lastWrite.accepted

\* C28: a save of the edit page never changes the moderation status: when
\* the update of handleSave completes, the status of the book is what it was,
\* also when a moderator changed it after the page had loaded.
C28_SaveKeepsModeratorStatus ==
    [][(saveReqs' # saveReqs /\ saveReqs' \subseteq saveReqs) =>
          bookTable'[editId].status = bookTable[editId].status]_vars

(***************************************************************************)
(* Asking twice for the same filter.                                       *)
(***************************************************************************)
\* C22: the same search text, genre and sort key asked for twice, with no
\* row of the table changed in between, return the same ids in the same
\* order, for every sort key the select offers
C22_SameFilterSameOrderedIds ==
    [][(db' = db /\ libReqs' = libReqs) =>
          \A r \in libReqs : ResultIds(r, heap') = ResultIds(r, heap)]_vars

(***************************************************************************)
(* What a search returns.                                                  *)
(***************************************************************************)
\* the term occurs in the title, the author or the description of the book
InAnyOfThree(b, term) ==
    \/ ILike(TitleOf(b), term)
    \/ ILike(AuthorOf(b), term)
    \/ ILike(DescriptionOf(b), term)

\* C23: with a search text, the listing returns exactly the books inside the
\* status, visibility and genre filters whose title, author or description
\* contains the text, whatever the case of the letters
C23_SearchCoversThreeFields ==
    \A r \in libReqs :
        Trim(r.search) # <<>> =>
            Matching(r.variant, r.search, r.genreId) =
                {b \in Matching(r.variant, <<>>, r.genreId) :
                    InAnyOfThree(b, Trim(r.search))}

(***************************************************************************)
(* The order of the rows a query returns.                                  *)
(***************************************************************************)
\* rows a and b may follow each other in this order under the sort key
InSortOrder(a, b, key) ==
    CASE key = "newest" -> UploadAtOf(a) >= UploadAtOf(b)
      [] key = "oldest" -> UploadAtOf(a) =< UploadAtOf(b)
      [] key = "az"     -> ~LexLess(TitleOf(b), TitleOf(a))
      [] OTHER          -> TRUE

\* C24: the rows a listing query returns are in descending upload time for
\* newest, ascending upload time for oldest and ascending title for az
C24_RowsOrderedPerSortKey ==
    \A r \in libReqs :
        LET data == QueryData(r)
        IN  \A i \in 1..(Len(data) - 1) :
                InSortOrder(data[i].id, data[i + 1].id, r.sort)

\* C24 witness: a list fetched under oldest is shown and its first and last
\* rows differ in upload time
C24_Witness ==
    /\ sort = "oldest" /\ libReqs = {} /\ Len(books) >= 2
    /\ UploadAtOf(books[1].id) < UploadAtOf(books[Len(books)].id)

(***************************************************************************)
(* The analytics tab: books by genre.                                      *)
(***************************************************************************)
NumAnaBooks == 3

\* genres(name) of a fetched row: null, or the joined genre's name; an
\* administrator types the name of a genre freely
AnaGenres ==
    {[present |-> FALSE, name |-> ""], [present |-> TRUE, name |-> "Fiction"],
     [present |-> TRUE, name |-> "constructor"]}

AnaRows == [status : Statuses, genres : AnaGenres]

\* book.genres?.name || "Uncategorized"
GenreNameOf(book) ==
    IF ~book.genres.present \/ book.genres.name = "" THEN "Uncategorized"
    ELSE book.genres.name

\* the values a property read of genreMap yields
Num(n) == [kind |-> "number", n |-> n]
Undefined == [kind |-> "undefined", n |-> 0]
FunctionValue == [kind |-> "function", n |-> 0]
StringValue == [kind |-> "string", n |-> 0]

\* genreMap is {} : a read of a key it does not own goes to Object.prototype
ObjectPrototypeKeys == {"constructor", "toString", "valueOf", "hasOwnProperty"}

\* genreMap[genreName]
Lookup(genreMap, k) ==
    IF k \in DOMAIN genreMap THEN genreMap[k]
    ELSE IF k \in ObjectPrototypeKeys THEN FunctionValue
    ELSE Undefined

\* (v || 0) + 1 : a number is incremented, anything else truthy is
\* concatenated with "1"
OrZeroPlusOne(v) ==
    IF v.kind = "undefined" THEN Num(1)
    ELSE IF v.kind = "number" THEN Num(v.n + 1)
    ELSE StringValue

\* genreMap[genreName] = (genreMap[genreName] || 0) + 1
Counted(genreMap, k) ==
    [x \in DOMAIN genreMap \cup {k} |->
        IF x = k THEN OrZeroPlusOne(Lookup(genreMap, k)) ELSE genreMap[x]]

\* books.filter(approved).forEach(...) from genreMap as given
RECURSIVE ForEachApproved(_, _)
ForEachApproved(genreMap, list) ==
    IF list = <<>> THEN genreMap
    ELSE ForEachApproved(
             IF Head(list).status = "approved"
                 THEN Counted(genreMap, GenreNameOf(Head(list)))
                 ELSE genreMap,
             Tail(list))

\* the useMemo: a pure function of books
BooksByGenre(list) == ForEachApproved(<<>>, list)

AnaOthers == <<db, heap, libVars, admVars, gateVars, upVars, prefVars, genVars, modVars>>

AnaInit ==
    /\ db = LibraryTable /\ heap = "asc"
    /\ LibIdle /\ AdmIdle /\ GateIdle /\ UpIdle /\ PrefIdle /\ GenIdle /\ ModIdle
    /\ AnaIdle

\* fetchData: the select answered with rows
AnalyticsFetchOk ==
    /\ analyticsLoading
    /\ analyticsBooks' \in [1..NumAnaBooks -> AnaRows]
    /\ analyticsLoading' = FALSE
    /\ UNCHANGED AnaOthers

\* fetchData: the select failed, books stays []
AnalyticsFetchError ==
    /\ analyticsLoading
    /\ analyticsLoading' = FALSE
    /\ UNCHANGED <<analyticsBooks, AnaOthers>>

AnaNext == AnalyticsFetchOk \/ AnalyticsFetchError

SpecAnalytics == AnaInit /\ [][AnaNext]_vars

\* the approved rows of the list that fall under genre name k
ApprovedUnder(list, k) ==
    {i \in 1..Len(list) : list[i].status = "approved" /\ GenreNameOf(list[i]) = k}

\* C25: the count by genre has a bucket exactly for the genre names (or
\* Uncategorized) of at least one approved book, and the value of a bucket
\* is the number of approved books under that name
C25_GenreBucketsCountApproved ==
    LET genreMap == BooksByGenre(analyticsBooks)
        names == {GenreNameOf(analyticsBooks[i]) : i \in 1..Len(analyticsBooks)}
    IN  /\ DOMAIN genreMap = {k \in names : ApprovedUnder(analyticsBooks, k) # {}}
        /\ \A k \in DOMAIN genreMap :
               genreMap[k] = Num(Cardinality(ApprovedUnder(analyticsBooks, k)))

(***************************************************************************)
(* Answers to requests issued under filters that have changed since.       *)
(***************************************************************************)
\* C26: the answer to a request issued under the old filter is put into the
\* list when it arrives, as if the filter had not changed: nothing cancels
\* the request or compares it with the current filter
C26_StaleAnswerStillMerged ==
    [][\A r \in libReqs :
          (libReqs' = libReqs \ {r} /\ failedFetch' = "none" /\ IssuedUnderOldFilter(r))
              => books' = IF r.reset THEN QueryData(r) ELSE r.base \o QueryData(r)]_vars

\* C26 witness: all requests are answered, the genre filter is set, and the
\* list holds a book of another genre, fetched under the old filter
C26_Witness ==
    /\ libReqs = {} /\ genreId = "g1" /\ failedFetch = "none"
    /\ \E i \in 1..Len(books) : GenreOf(books[i].id) # "g1"

(***************************************************************************)
(* The admin list once every fetch has answered.                           *)
(***************************************************************************)
\* C27: when no request is in flight and the last one to answer was a fetch
\* that succeeded, the admin list is the result of the query for the filter
\* the tab shows now, in whatever order the answers arrived
C27_SettledListMatchesFilter ==
    (adminReqs = {} /\ lastDone.kind = "fetch" /\ lastDone.ok)
        => adminBooks = AdminQuery(status)

(***************************************************************************)
(* The selection of the admin books tab.                                   *)
(***************************************************************************)
\* C29: every selected book id is the id of a row of the list shown, also
\* after filter changes, refetches, status updates and deletions
C29_SelectionWithinShownList == selectedBooks \subseteq ShownIds

(***************************************************************************)
(* The steps of the wizard around a submission.                            *)
(***************************************************************************)
\* the wizard enters its complete step
EntersComplete == currentStep # "complete" /\ currentStep' = "complete"

\* the step stores the row of a submission whose file is in the bucket
BothSucceeded ==
    /\ upload.stage = "insert" /\ upload'.stage = "done"
    /\ upload.path \in objects
    /\ inserted' = Append(inserted, BookRow(upVariant, upload))

\* a submission of the wizard ends without its row stored
SubmissionFails ==
    /\ upVariant = "wizard" /\ uploading /\ ~uploading'
    /\ inserted' = inserted

\* the wizard is on the file step with the fields as they were
StaysOnFileStep ==
    /\ currentStep' = "upload"
    /\ <<title', author', upGenreId', isPublic', file'>> =
           <<title, author, upGenreId, isPublic, file>>

\* C30: the wizard enters the complete step only in the step that stores the
\* row of a submission whose file was stored before; a submission that fails
\* leaves the wizard on the file step with title, author, genre, visibility
\* and file as they were
C30_CompleteOnlyAfterBothSucceed ==
    [][(EntersComplete => BothSucceeded) /\ (SubmissionFails => StaysOnFileStep)]_vars

\* C30 witness: of two submissions of the wizard one failed and the other
\* brought the wizard to the complete step
C30_Witness ==
    /\ upVariant = "wizard" /\ currentStep = "complete" /\ upload.stage = "done"
    /\ submits = 2 /\ Len(inserted) = 1

====================================================================
